---- MODULE Spec2Model ----
(***************************************************************************)
(* Assessment session and scoring engine of jarvis-backend.                *)
(*                                                                         *)
(* The model follows StudentAssessmentController (the HTTP handlers and    *)
(* their validation) and StudentAssessmentService (the session life cycle) *)
(* request by request.  Every handler is cut at its awaits: one action is  *)
(* one call to the backing store together with the synchronous code that   *)
(* follows it up to the next await, which is the unit Node.js runs without *)
(* interruption.  Requests live in slots.  Spec and PolicySpec serve one   *)
(* request after the other (the session life cycle of one student, and the *)
(* attempt policy over every student and template); RaceSpec lets the      *)
(* slots interleave at every store call.  ChoiceSpec scores choice answers *)
(* on t2; TextSpec runs both text evaluators, submitResponse and the       *)
(* standalone AssessmentService.finish, over a family of answer specs.     *)
(* AuthSpec is SupabaseGuard in front of the routes; RunnerSpec is the     *)
(* standalone flow with the legacy question bank; AdminSpec is             *)
(* AdminAssessmentService.createTemplate; AnswerRaceSpec interleaves       *)
(* answers with the finish of their session; RetakeSpec follows every      *)
(* finish with a start on templates that allow or forbid retakes.          *)
(***************************************************************************)
EXTENDS Integers, Sequences, FiniteSets, TLC

\* ------------------------------------------------------------------ bounds
NumSlots == 2
MaxSessions == 3
MaxResponses == 2
MaxTime == 2
MaxPauses == 1
MaxAssessments == 1
MaxRaceSessions == 2

Slots == 1..NumSlots

\* ------------------------------------------------------- the store's rows
Students == {"s1", "s2"}
TemplateIds == {"t1", "t2", "t3", "t4"}
\* an id no template row carries
NoTemplate == "t0"

\* JS null / undefined / "" for an id, and for a number that is absent or 0
Null == ""
NoText == << >>

\* a points_value that is null, and one that is no number
NoPoints == -1
NonNumeric == -2

\* assessment_questions rows (select=*)
assessment_questions ==
  [ q1 |-> [id |-> "q1", question_type |-> "mcq",  points_value |-> 2,
            question_text |-> "one", is_active |-> "true",
            explanation |-> "why one"],
    q2 |-> [id |-> "q2", question_type |-> "text", points_value |-> NoPoints,
            question_text |-> "two", is_active |-> "true",
            explanation |-> "why two"],
    q3 |-> [id |-> "q3", question_type |-> "mcq",  points_value |-> 1,
            question_text |-> "three", is_active |-> "true",
            explanation |-> "why three"],
    q4 |-> [id |-> "q4", question_type |-> "image_mcq", points_value |-> 0,
            question_text |-> "four", is_active |-> "true",
            explanation |-> "why four"],
    q5 |-> [id |-> "q5", question_type |-> "text", points_value |-> 3,
            question_text |-> "five", is_active |-> "false",
            explanation |-> "why five"],
    q6 |-> [id |-> "q6", question_type |-> "essay", points_value |-> 1,
            question_text |-> "six", is_active |-> "true",
            explanation |-> "why six"],
    q7 |-> [id |-> "q7", question_type |-> "short_text",
            points_value |-> NonNumeric,
            question_text |-> "seven", is_active |-> Null,
            explanation |-> "why seven"] ]

QuestionIds == DOMAIN assessment_questions
\* an id no question row carries
NoQuestion == "q0"

\* the assessment_question_options table
VARIABLE assessment_question_options

\* the option rows of the catalogue
SeedOptions ==
  { [id |-> "o1", question_id |-> "q1", is_correct |-> TRUE, order_index |-> 1,
     option_text |-> <<"y", "e", "s">>, explanation |-> "right"],
    [id |-> "o2", question_id |-> "q1", is_correct |-> FALSE, order_index |-> 2,
     option_text |-> <<"n", "o">>, explanation |-> "wrong"],
    [id |-> "o5", question_id |-> "q1", is_correct |-> FALSE, order_index |-> 3,
     option_text |-> <<"o">>, explanation |-> "wrong"],
    [id |-> "o3", question_id |-> "q3", is_correct |-> TRUE, order_index |-> 1,
     option_text |-> <<"y", "e", "s">>, explanation |-> "right"],
    [id |-> "o4", question_id |-> "q4", is_correct |-> TRUE, order_index |-> 1,
     option_text |-> <<"y", "e", "s">>, explanation |-> "right"] }

\* an option id no option row carries
NoOption == "o0"

\* the assessment_text_answers table
VARIABLE assessment_text_answers

\* the text answer rows of the catalogue the sessions run on
SeedTextAnswers ==
  { [question_id |-> "q2", correct_answer |-> <<"a", "b">>,
     case_sensitive |-> FALSE, exact_match |-> FALSE,
     alternate_answers |-> << <<"B">> >>, keywords |-> << >>] }

\* the assessment_template_questions table: per template, the question
\* ids in order_index order
VARIABLE assessment_template_questions

\* the links of the catalogue
SeedTemplateQuestions ==
  [ t1 |-> <<"q1", "q2">>, t2 |-> <<"q3", "q4">>, t3 |-> <<"q1">>,
    t4 |-> <<"q1">> ]

\* assessment_templates rows.  max_attempts 0 stands for a null (or zero)
\* max_attempts: the code tests it by truthiness only.
CappedTemplate ==
  [ is_active |-> TRUE, is_public |-> TRUE, max_attempts |-> 2,
    time_limit_minutes |-> 1, passing_percentage |-> 50,
    allow_retakes |-> TRUE, show_results_immediately |-> TRUE,
    randomize_questions |-> TRUE, randomize_options |-> TRUE ]

Catalogues ==
  { [ t1 |-> CappedTemplate,
      t2 |-> [CappedTemplate EXCEPT !.max_attempts = 0,
                                   !.show_results_immediately = FALSE,
                                   !.randomize_questions = FALSE,
                                   !.randomize_options = FALSE],
      t3 |-> [CappedTemplate EXCEPT !.is_active = FALSE],
      t4 |-> [CappedTemplate EXCEPT !.is_public = FALSE] ] }

\* ------------------------------------------------------ JS string helpers
\* strings are sequences of one-character strings
ToLowerChar(c) ==
  CASE c = "A" -> "a" [] c = "B" -> "b" [] OTHER -> c

toLowerCase(s) == [i \in DOMAIN s |-> ToLowerChar(s[i])]

RECURSIVE trimStart(_)
trimStart(s) ==
  IF s # << >> /\ Head(s) = " " THEN trimStart(Tail(s)) ELSE s

RECURSIVE trimEnd(_)
trimEnd(s) ==
  IF s # << >> /\ s[Len(s)] = " " THEN trimEnd(SubSeq(s, 1, Len(s) - 1)) ELSE s

trim(s) == trimEnd(trimStart(s))

includes(s, sub) ==
  \E i \in 0..(Len(s) - Len(sub)) : SubSeq(s, i + 1, i + Len(sub)) = sub

\* Math.ceil(n / 2)
CeilHalf(n) == (n + 1) \div 2

\* question.points_value || 1
PointsOf(question) ==
  IF question.points_value \notin {0, NoPoints} THEN question.points_value ELSE 1

\* the option row the query id=eq.<option>&question_id=eq.<question> returns
OptionRows(option, question) ==
  { o \in assessment_question_options :
      o.id = option /\ o.question_id = question }

TextAnswerRows(question) ==
  { t \in assessment_text_answers : t.question_id = question }

\* the decision on one text answer row, the alternates consulted whatever
\* the exact_match flag
TextMatches_alternatesInExact(textAnswer, text_answer) ==
  LET studentAnswer == trim(text_answer)
      correctAnswer == trim(textAnswer.correct_answer)
      norm(x) == IF textAnswer.case_sensitive THEN x ELSE toLowerCase(x)
  IN  \/ norm(studentAnswer) = norm(correctAnswer)
      \/ \E i \in DOMAIN textAnswer.alternate_answers :
           includes(norm(studentAnswer), norm(textAnswer.alternate_answers[i]))

\* lines 889-910: the decision on one text answer row
TextMatches(textAnswer, text_answer) ==
  LET studentAnswer == trim(text_answer)
      correctAnswer == trim(textAnswer.correct_answer)
      norm(x) == IF textAnswer.case_sensitive THEN x ELSE toLowerCase(x)
      answerToCheck == norm(studentAnswer)
      correctToCheck == norm(correctAnswer)
      direct ==
        \/ includes(answerToCheck, correctToCheck)
        \/ \E i \in DOMAIN textAnswer.alternate_answers :
             includes(answerToCheck, norm(textAnswer.alternate_answers[i]))
      keywordMatches ==
        { i \in DOMAIN textAnswer.keywords :
            includes(answerToCheck, norm(textAnswer.keywords[i])) }
  IN  IF textAnswer.exact_match
      THEN IF textAnswer.case_sensitive
           THEN studentAnswer = correctAnswer
           ELSE toLowerCase(studentAnswer) = toLowerCase(correctAnswer)
      ELSE IF ~direct /\ Len(textAnswer.keywords) > 0
           THEN Cardinality(keywordMatches) >= CeilHalf(Len(textAnswer.keywords))
           ELSE direct

ChoiceTypes == {"mcq", "image_mcq"}
TextTypes == {"text", "image_text", "short_text", "fill_blank"}

\* validateAndScoreResponse: isCorrect of a submission
IsCorrectResponse(question, option, text) ==
  IF question.question_type \in ChoiceTypes
  THEN /\ option # Null
       /\ \E o \in OptionRows(option, question.id) : o.is_correct
  ELSE IF question.question_type \in TextTypes
  THEN /\ text # NoText
       /\ \E t \in TextAnswerRows(question.id) : TextMatches(t, text)
  ELSE FALSE

validateAndScoreResponse(question, option, text) ==
  LET isCorrect == IsCorrectResponse(question, option, text)
  IN  [isCorrect |-> isCorrect,
       pointsEarned |-> IF isCorrect THEN PointsOf(question) ELSE 0]

\* ------------------------------------------------------------------ state
VARIABLES
  templates,      \* assessment_templates rows, by id
  sessions,       \* student_assessment_sessions rows, in insertion order
  responses,      \* student_assessment_responses rows
  expirePatches,  \* per session: PATCH {status: expired} calls issued
  now,            \* the wall clock, in minutes
  req,            \* per slot: the request in flight, or the last reply
  assessments,          \* the standalone flow: assessments rows
  assessment_responses, \* the standalone flow: assessment_responses rows
  profiles,             \* the users whose assessment_completed_at is set
  gate                  \* the HTTP request at SupabaseGuard and its route

vars == <<templates, assessment_text_answers, assessment_question_options,
          assessment_template_questions, sessions, responses,
          expirePatches, now, req, assessments, assessment_responses,
          profiles, gate>>

\* what the engine only reads, and the tables of the standalone flow
tables ==
  <<templates, assessment_text_answers, assessment_question_options,
    assessment_template_questions>>
catalogue == <<tables, gate>>
runner == <<assessments, assessment_responses, profiles>>

\* a session row that is no row; the shape of student_assessment_sessions
NoSession ==
  [id |-> 0, student_id |-> Null, template_id |-> Null, attempt_number |-> 0,
   status |-> Null, expires_at |-> 0, total_score |-> 0, correct_answers |-> 0,
   percentage_score |-> 0, passed |-> Null, pause_count |-> 0]

\* a slot with no request
IdleReq ==
  [op |-> "none", pc |-> "idle", student |-> Null, template |-> Null,
   token |-> 0, question |-> Null, option |-> Null, text |-> NoText,
   time_spent |-> 0, session |-> NoSession, attempt |-> 0, expires |-> 0,
   isCorrect |-> FALSE, points |-> 0, can_retake |-> FALSE, status |-> "none",
   message |-> Null, body |-> << >>, answers |-> << >>, toSave |-> << >>,
   questions |-> << >>, question_ids |-> << >>]

Idle(p) == req[p].pc = "idle"
InFlight(p) == req[p].pc \notin {"idle", "done"}

\* the handler returns, or throws the named exception; the slot keeps who
\* asked, for which template or session, and the body of the reply
Reply(r, status) ==
  [r EXCEPT !.pc = "done", !.status = status, !.question = Null,
            !.option = Null, !.text = NoText, !.time_spent = 0, !.expires = 0]

Throw(r, exception, message) ==
  [IdleReq EXCEPT !.op = r.op, !.pc = "done", !.status = exception,
                  !.message = message, !.student = r.student,
                  !.template = r.template, !.token = r.token,
                  !.question = r.question, !.option = r.option,
                  !.text = r.text, !.time_spent = r.time_spent]

Goto(r, pc) == [r EXCEPT !.pc = pc]

\* a request without an Authorization header
NoHeader == [scheme |-> Null]

\* the user that is not set
NoUser == [id |-> "unset", email |-> "unset"]

\* no request at the guard
IdleGate(env) ==
  [pc |-> "idle", route |-> Null, authorization |-> NoHeader,
   user |-> NoUser, handled |-> FALSE, status |-> 0, message |-> Null,
   body |-> NoUser, env |-> env]

\* the environment of a deployment
DefaultGate ==
  IdleGate([NODE_ENV |-> "production", ALLOW_DEV_UNVERIFIED_JWT |-> Null])

Init ==
  /\ templates \in Catalogues
  /\ assessment_question_options = SeedOptions
  /\ assessment_template_questions = SeedTemplateQuestions
  /\ assessment_text_answers = SeedTextAnswers
  /\ assessments = << >>
  /\ assessment_responses = {}
  /\ profiles = {}
  /\ gate = DefaultGate
  /\ sessions = << >>
  /\ responses = {}
  /\ expirePatches = << >>
  /\ now = 0
  /\ req = [p \in Slots |-> IdleReq]

\* time passes
Tick ==
  /\ now < MaxTime
  /\ now' = now + 1
  /\ UNCHANGED <<catalogue, runner, sessions, responses, expirePatches, req>>

\* ------------------------------------------------------- store queries
SessionIds == 1..Len(sessions)

\* student_assessment_sessions?student_id=eq.S&template_id=eq.T
SessionsOf(student, template) ==
  { i \in SessionIds :
      sessions[i].student_id = student /\ sessions[i].template_id = template }

\* getActiveSessionsForTemplate: ...&status=eq.in_progress
getActiveSessionsForTemplate(template, student) ==
  { i \in SessionsOf(student, template) : sessions[i].status = "in_progress" }

\* a count of the finished attempts only
getAttemptCount_completedOnly(template, student) ==
  Cardinality({ i \in SessionsOf(student, template) :
                  sessions[i].status = "completed" })

\* getAttemptCount: ...&select=count
getAttemptCount(template, student) ==
  Cardinality(SessionsOf(student, template))

\* ...&select=attempt_number&order=attempt_number.desc&limit=1
TopAttempt(student, template) ==
  { sessions[i].attempt_number : i \in
      { j \in SessionsOf(student, template) :
          \A k \in SessionsOf(student, template) :
            sessions[k].attempt_number <= sessions[j].attempt_number } }

\* the highest attempt number, reused
NextAttemptNumber_noIncrement(attempts) ==
  IF attempts # {} THEN CHOOSE a \in attempts : TRUE ELSE 1

\* attempts.length > 0 ? attempts[0].attempt_number + 1 : 1
NextAttemptNumber(attempts) ==
  IF attempts # {} THEN (CHOOSE a \in attempts : TRUE) + 1 ELSE 1

\* getAssessmentTemplate's checks on the fetched row
TemplateOutcome(template) ==
  IF template \notin DOMAIN templates THEN "NotFound"
  ELSE IF ~templates[template].is_active \/ ~templates[template].is_public
       THEN "Forbidden"
       ELSE "ok"

TemplateMessage(outcome) ==
  IF outcome = "NotFound" THEN "Assessment template not found"
  ELSE "This assessment is not available"

\* the row the store inserts: status defaults to in_progress
NewSession(r) ==
  [NoSession EXCEPT !.id = Len(sessions) + 1, !.student_id = r.student,
     !.template_id = r.template, !.attempt_number = r.attempt,
     !.status = "in_progress", !.expires_at = r.expires]

\* ----------------------------------------------- the question payloads
\* an assignment of shuffled[j] to shuffled[i] that is no exchange
SwapEntries_overwrite(shuffled, i, j) ==
  [shuffled EXCEPT ![i + 1] = shuffled[j + 1]]

\* [shuffled[i], shuffled[j]] = [shuffled[j], shuffled[i]], indices from 0
SwapEntries(shuffled, i, j) ==
  [shuffled EXCEPT ![i + 1] = shuffled[j + 1], ![j + 1] = shuffled[i + 1]]

\* the loop of shuffleArray from index i down to 1, for every j that
\* Math.floor(Math.random() * (i + 1)) can be; run holds the argument and
\* the copy the loop works on
RECURSIVE shuffleLoop(_, _)
shuffleLoop(run, i) ==
  IF i < 1 THEN {run}
  ELSE UNION { shuffleLoop(
                 [run EXCEPT !.shuffled = SwapEntries(run.shuffled, i, j)],
                 i - 1) : j \in 0..i }

\* the runs of shuffleArray on an array: shuffled = [...array], the loop
shuffleRuns(array) ==
  shuffleLoop([array |-> array, shuffled |-> array], Len(array) - 1)

\* shuffleArray: every array the call can return
shuffleArray(array) == { run.shuffled : run \in shuffleRuns(array) }

\* ...assessment_question_options?question_id=eq.Q&order=order_index.asc
OptionsOf(question) ==
  LET rows == { o \in assessment_question_options : o.question_id = question }
  IN  CHOOSE seq \in [1..Cardinality(rows) -> rows] :
        \A i, j \in 1..Cardinality(rows) :
          i < j => seq[i].order_index < seq[j].order_index

\* prepareQuestionOptions: the fields kept of every option, then the shuffle
prepareQuestionOptions(options, randomize) ==
  LET preparedOptions ==
        [i \in DOMAIN options |->
           [id |-> options[i].id, option_text |-> options[i].option_text]]
  IN  IF randomize THEN shuffleArray(preparedOptions) ELSE {preparedOptions}

\* getQuestionsForSession: the question rows linked to the template, in
\* order_index order, then the shuffle
getQuestionsForSession(template, randomize) ==
  LET linked == assessment_template_questions[template]
      questions == [i \in DOMAIN linked |-> assessment_questions[linked[i]]]
  IN  IF randomize THEN shuffleArray(questions) ELSE {questions}

\* startAssessment's questions.map, lines 498-508: one entry of the reply
StartQuestionEntries(q, index, randomize_options) ==
  { [id |-> q.id, question_number |-> index, question_type |-> q.question_type,
     question_text |-> q.question_text, points_value |-> q.points_value,
     options |-> options] :
      options \in prepareQuestionOptions(OptionsOf(q.id), randomize_options) }

\* the questions arrays startAssessment can return for the template
StartQuestions(template) ==
  UNION { { body \in [DOMAIN questions ->
                        UNION { StartQuestionEntries(questions[i], i,
                                  templates[template].randomize_options) :
                                i \in DOMAIN questions }] :
              \A i \in DOMAIN questions :
                body[i] \in StartQuestionEntries(questions[i], i,
                              templates[template].randomize_options) } :
          questions \in getQuestionsForSession(template,
                          templates[template].randomize_questions) }

\* getQuestionForSession's reply, lines 577-586: the question row spread,
\* then options, existing_response and session_info
QuestionReplies(question, session, existingResponse) ==
  { [ key \in DOMAIN assessment_questions[question]
              \cup {"options", "existing_response", "session_info"} |->
        CASE key = "options" -> options
          [] key = "existing_response" -> existingResponse
          [] key = "session_info" -> [questions_answered |->
                                        Cardinality({ x \in responses :
                                          x.session_id = session.id })]
          [] OTHER -> assessment_questions[question][key] ] :
      options \in prepareQuestionOptions(OptionsOf(question),
                    templates[session.template_id].randomize_options) }

\* ------------------------------------------- POST /v1/student/assessments/start
\* A request arrives together with its first call to the store: the handler
\* has touched nothing before it.  For a start that call is the template
\* fetch of validateStudentCanStartAssessment, lines 248-257.
StartsInFlight == { q \in Slots : req[q].op = "start" /\ InFlight(q) }

\* the requests the model issues: a start that can add a row only while
\* the table has room for it
Eligible(student, template) ==
  /\ TemplateOutcome(template) = "ok"
  /\ getActiveSessionsForTemplate(template, student) = {}
  /\ \/ templates[template].max_attempts = 0
     \/ getAttemptCount(template, student) < templates[template].max_attempts

BeginStart(p, student, template) ==
  /\ Idle(p)
  /\ \/ Len(sessions) + Cardinality(StartsInFlight) < MaxSessions
     \/ (StartsInFlight = {} /\ ~Eligible(student, template))
  /\ LET r == [IdleReq EXCEPT !.op = "start", !.student = student,
                                !.template = template]
         outcome == TemplateOutcome(template)
     IN  req' = [req EXCEPT ![p] =
           IF outcome # "ok" THEN Throw(r, outcome, TemplateMessage(outcome))
           ELSE IF ~templates[template].is_active
                THEN Throw(r, "Forbidden", "This assessment is not currently available")
           ELSE Goto(r, "activeSessions")]
  /\ UNCHANGED <<catalogue, runner, sessions, responses, expirePatches, now>>

\* ... the active-session check, lines 259-268
StartActiveSessions(p) ==
  /\ req[p].op = "start" /\ req[p].pc = "activeSessions"
  /\ LET r == req[p]
         activeSessions == getActiveSessionsForTemplate(r.template, r.student)
     IN  req' = [req EXCEPT ![p] =
           IF activeSessions # {}
           THEN Throw(r, "BadRequest",
                      "You already have an active session for this assessment")
           ELSE IF templates[r.template].max_attempts # 0
                THEN Goto(r, "attemptCount")
                ELSE Goto(r, "startTemplate")]
  /\ UNCHANGED <<catalogue, runner, sessions, responses, expirePatches, now>>

\* the attempt cap answered as a bad request
AttemptCapException_badRequest == "BadRequest"

\* the exception the attempt cap raises, lines 278-282
AttemptCapException == "Forbidden"

\* ... the attempt limit, lines 270-283
StartAttemptCount(p) ==
  /\ req[p].op = "start" /\ req[p].pc = "attemptCount"
  /\ LET r == req[p]
         attemptCount == getAttemptCount(r.template, r.student)
     IN  req' = [req EXCEPT ![p] =
           IF attemptCount >= templates[r.template].max_attempts
           THEN Throw(r, AttemptCapException,
                      "You have reached the maximum number of attempts")
           ELSE Goto(r, "startTemplate")]
  /\ UNCHANGED <<catalogue, runner, sessions, responses, expirePatches, now>>

\* startAssessment: getAssessmentTemplate again
StartTemplate(p) ==
  /\ req[p].op = "start" /\ req[p].pc = "startTemplate"
  /\ LET r == req[p]
         outcome == TemplateOutcome(r.template)
     IN  req' = [req EXCEPT ![p] =
           IF outcome # "ok" THEN Throw(r, outcome, TemplateMessage(outcome))
           ELSE Goto(r, "attempts")]
  /\ UNCHANGED <<catalogue, runner, sessions, responses, expirePatches, now>>

\* ... the attempt number and the expiry time, lines 456-464
StartAttempts(p) ==
  /\ req[p].op = "start" /\ req[p].pc = "attempts"
  /\ LET r == req[p]
         attempts == TopAttempt(r.student, r.template)
     IN  req' = [req EXCEPT ![p] =
           [r EXCEPT !.pc = "insertSession",
                     !.attempt = NextAttemptNumber(attempts),
                     !.expires = now + templates[r.template].time_limit_minutes]]
  /\ UNCHANGED <<catalogue, runner, sessions, responses, expirePatches, now>>

\* ... the POST of the session row, lines 466-488
StartInsertSession(p) ==
  /\ req[p].op = "start" /\ req[p].pc = "insertSession"
  /\ Len(sessions) < MaxSessions
  /\ LET r == req[p]
         session == NewSession(r)
     IN  /\ sessions' = Append(sessions, session)
         /\ expirePatches' = Append(expirePatches, 0)
         /\ req' = [req EXCEPT ![p] =
              [r EXCEPT !.pc = "sessionQuestions", !.session = session,
                        !.token = session.id]]
  /\ UNCHANGED <<catalogue, runner, responses, now>>

\* ... getQuestionsForSession and the reply, lines 490-511
StartSessionQuestions(p) ==
  /\ req[p].op = "start" /\ req[p].pc = "sessionQuestions"
  /\ \E questions \in StartQuestions(req[p].template) :
       req' = [req EXCEPT ![p] = Reply([req[p] EXCEPT !.body = questions], "ok")]
  /\ UNCHANGED <<catalogue, runner, sessions, responses, expirePatches, now>>

\* ---------------------------------------------------- getAssessmentSession
\* ...?session_token=eq.TOKEN&student_id=eq.STUDENT: the token of a session
\* is modelled by its id, no other token opens it
SessionRows_anyStudent(token, student) ==
  { i \in SessionIds : sessions[i].id = token }

SessionRows(token, student) ==
  { i \in SessionIds :
      sessions[i].id = token /\ sessions[i].student_id = student }

\* an expiry test that looks at the status only
IsExpired_statusOnly(session) == session.status = "expired"

\* line 527: the session counts as expired
IsExpired(session) ==
  session.status = "expired" \/ now > session.expires_at

\* an expiry write on every expired read
NeedsExpireWrite_always(session) == TRUE

\* line 529: the read writes the expiry
NeedsExpireWrite(session) == session.status # "expired"

ExpirePcs == {"expire", "updatedExpire"}
ResponsesPcs == {"responses", "updatedResponses"}

ExpirePcOf(pc) == IF pc = "session" THEN "expire" ELSE "updatedExpire"
ResponsesPcOf(pc) == IF pc = "session" THEN "responses" ELSE "updatedResponses"

\* the fetch of the session row and the expiry test, lines 515-533
SessionFetched(r) ==
  LET rows == SessionRows(r.token, r.student)
  IN  IF rows = {} THEN Throw(r, "NotFound", "Assessment session not found")
      ELSE LET session == sessions[CHOOSE i \in rows : TRUE]
           IN  IF IsExpired(session)
               THEN IF NeedsExpireWrite(session)
                    THEN [r EXCEPT !.pc = ExpirePcOf(r.pc), !.session = session]
                    ELSE Throw(r, "Forbidden", "Assessment session has expired")
               ELSE [r EXCEPT !.pc = ResponsesPcOf(r.pc), !.session = session]

\* finishAssessment reads the session again, line 707
FetchSession(p) ==
  /\ req[p].pc = "updatedSession"
  /\ req' = [req EXCEPT ![p] = SessionFetched(req[p])]
  /\ UNCHANGED <<catalogue, runner, sessions, responses, expirePatches, now>>

\* expireSession's PATCH, then the Forbidden of line 532
ExpireSession(p) ==
  /\ req[p].pc \in ExpirePcs
  /\ LET r == req[p]
         id == r.session.id
     IN  /\ sessions' = [sessions EXCEPT ![id].status = "expired"]
         /\ expirePatches' = [expirePatches EXCEPT ![id] = @ + 1]
         /\ req' = [req EXCEPT ![p] =
              Throw(r, "Forbidden", "Assessment session has expired")]
  /\ UNCHANGED <<catalogue, runner, responses, now>>

\* finishAssessment's can_retake, lines 718-720
CanRetake(session) ==
  LET template == templates[session.template_id]
  IN  /\ template.allow_retakes
      /\ \/ template.max_attempts = 0
         \/ session.attempt_number < template.max_attempts

\* what the caller of getAssessmentSession does with the session it got
AfterSession(r) ==
  CASE r.op = "get" -> Reply(r, "ok")
    [] r.op = "question" -> Goto(r, "question")
    [] r.op = "submit" ->
         IF r.session.status # "in_progress"
         THEN Throw(r, "BadRequest", "Cannot submit response for non-active session")
         ELSE Goto(r, "question")
    [] r.op \in {"pause", "resume"} -> Goto(r, "metadata")
    [] r.op = "finish" /\ r.pc = "responses" ->
         IF r.session.status # "in_progress"
         THEN Throw(r, "BadRequest", "Cannot finish non-active session")
         ELSE Goto(r, "calculate")
    [] r.op = "finish" /\ r.pc = "updatedResponses" ->
         Reply([r EXCEPT !.can_retake = CanRetake(r.session)], "ok")

\* the fetch of the session's responses, and the return, lines 535-545
FetchResponses(p) ==
  /\ req[p].pc \in ResponsesPcs
  /\ req' = [req EXCEPT ![p] = AfterSession(req[p])]
  /\ UNCHANGED <<catalogue, runner, sessions, responses, expirePatches, now>>

\* the tokens a request may carry: every session's, and one that is none's
Tokens == 0..Len(sessions)

\* GET session/:token
BeginGet(p, student, token) ==
  /\ Idle(p)
  /\ req' = [req EXCEPT ![p] = SessionFetched(
       [IdleReq EXCEPT !.op = "get", !.pc = "session",
                       !.student = student, !.token = token])]
  /\ UNCHANGED <<catalogue, runner, sessions, responses, expirePatches, now>>

\* ------------------------------------- GET session/:token/question/:questionId
BeginQuestion(p, student, token, question) ==
  /\ Idle(p)
  /\ req' = [req EXCEPT ![p] = SessionFetched(
       [IdleReq EXCEPT !.op = "question", !.pc = "session",
                       !.student = student, !.token = token,
                       !.question = question])]
  /\ UNCHANGED <<catalogue, runner, sessions, responses, expirePatches, now>>

\* the fetch of the question and of its options, lines 552-570
QuestionFetch(p) ==
  /\ req[p].op = "question" /\ req[p].pc = "question"
  /\ LET r == req[p]
     IN  req' = [req EXCEPT ![p] =
           IF r.question \notin QuestionIds
           THEN Throw(r, "NotFound", "Question not found")
           ELSE Goto(r, "existingResponse")]
  /\ UNCHANGED <<catalogue, runner, sessions, responses, expirePatches, now>>

\* the fetch of the existing response, and the reply, lines 572-586
QuestionExistingResponse(p) ==
  /\ req[p].op = "question" /\ req[p].pc = "existingResponse"
  /\ LET r == req[p]
         existingResponse ==
           { x \in responses :
               x.session_id = r.session.id /\ x.question_id = r.question }
     IN  \E reply \in QuestionReplies(r.question, r.session, existingResponse) :
           req' = [req EXCEPT ![p] =
             Reply([r EXCEPT !.session = NoSession, !.body = <<reply>>], "ok")]
  /\ UNCHANGED <<catalogue, runner, sessions, responses, expirePatches, now>>

\* ------------------------------------------ POST /v1/student/assessments/response
\* the bodies a client posts: every question with a choice or a text, and
\* the malformed shapes
SubmitDtos ==
  { [question |-> "q1", option |-> "o1", text |-> NoText, time_spent |-> 0],
    [question |-> "q1", option |-> "o2", text |-> NoText, time_spent |-> 0],
    [question |-> "q2", option |-> Null, text |-> <<"a", "b">>, time_spent |-> 0],
    [question |-> "q3", option |-> "o3", text |-> NoText, time_spent |-> 0],
    [question |-> NoQuestion, option |-> "o1", text |-> NoText, time_spent |-> 0] }
  \cup
  { [question |-> "q1", option |-> "o1", text |-> <<"a", "b">>, time_spent |-> 0],
    [question |-> "q1", option |-> Null, text |-> NoText, time_spent |-> 0],
    [question |-> "q1", option |-> "o1", text |-> NoText, time_spent |-> -1],
    [question |-> Null, option |-> "o1", text |-> NoText, time_spent |-> 0] }

\* a session_token that is absent, empty or blank
BlankToken == -1

\* a shape check that lets a body with both answers through
validateResponseData_bothAllowed(dto) ==
  IF dto.session_token = BlankToken THEN "Session token is required"
  ELSE IF dto.question = Null THEN "Question ID is required"
  ELSE IF dto.option = Null /\ dto.text = NoText
       THEN "Either selected_option_id or text_answer is required"
  ELSE IF dto.time_spent < 0 THEN "Time spent cannot be negative"
  ELSE Null

\* validateResponseData: the message of the BadRequest it throws, or Null
validateResponseData(dto) ==
  IF dto.session_token = BlankToken THEN "Session token is required"
  ELSE IF dto.question = Null THEN "Question ID is required"
  ELSE IF dto.option = Null /\ dto.text = NoText
       THEN "Either selected_option_id or text_answer is required"
  ELSE IF dto.option # Null /\ dto.text # NoText
       THEN "Cannot provide both selected_option_id and text_answer"
  ELSE IF dto.time_spent < 0 THEN "Time spent cannot be negative"
  ELSE Null

ShapeMessages ==
  { "Session token is required",
    "Question ID is required",
    "Either selected_option_id or text_answer is required",
    "Cannot provide both selected_option_id and text_answer",
    "Time spent cannot be negative" }

ResponsesOf(session_id) == { x \in responses : x.session_id = session_id }

Answered(session_id, question) ==
  \E x \in responses : x.session_id = session_id /\ x.question_id = question

SubmitsInFlight == { q \in Slots : req[q].op = "submit" /\ InFlight(q) }

BeginSubmit(p, student, token, dto) ==
  /\ Idle(p)
  /\ \/ Cardinality(responses) + Cardinality(SubmitsInFlight) < MaxResponses
     \/ Answered(token, dto.question)
  /\ LET r == [IdleReq EXCEPT !.op = "submit", !.student = student,
                 !.token = token, !.question = dto.question,
                 !.option = dto.option, !.text = dto.text,
                 !.time_spent = dto.time_spent]
         responseDto == [session_token |-> token] @@ dto
     IN  req' = [req EXCEPT ![p] =
           IF validateResponseData(responseDto) = Null
           THEN SessionFetched(Goto(r, "session"))
           ELSE Throw(r, "BadRequest", validateResponseData(responseDto))]
  /\ UNCHANGED <<catalogue, runner, sessions, responses, expirePatches, now>>

\* the fetch of the question, lines 597-604
SubmitQuestion(p) ==
  /\ req[p].op = "submit" /\ req[p].pc = "question"
  /\ LET r == req[p]
     IN  req' = [req EXCEPT ![p] =
           IF r.question \notin QuestionIds
           THEN Throw(r, "NotFound", "Question not found")
           ELSE Goto(r, "score")]
  /\ UNCHANGED <<catalogue, runner, sessions, responses, expirePatches, now>>

\* validateAndScoreResponse with its fetch of the option or the text answer
SubmitScore(p) ==
  /\ req[p].op = "submit" /\ req[p].pc = "score"
  /\ LET r == req[p]
         scored == validateAndScoreResponse(
                     assessment_questions[r.question], r.option, r.text)
     IN  req' = [req EXCEPT ![p] =
           [r EXCEPT !.pc = "save", !.isCorrect = scored.isCorrect,
                     !.points = scored.pointsEarned]]
  /\ UNCHANGED <<catalogue, runner, sessions, responses, expirePatches, now>>

\* responsePayload, lines 614-623
ResponsePayload(r) ==
  [session_id |-> r.session.id, question_id |-> r.question,
   selected_option_id |-> r.option, text_answer |-> r.text,
   is_correct |-> r.isCorrect, points_earned |-> r.points]

\* the store's answer to the POST of a response row: the table holds one
\* row per (session_id, question_id) and answers a second one with 409
InsertResponseStatus(row) ==
  IF Answered(row.session_id, row.question_id) THEN 409 ELSE 201

\* a conflict taken for any other failure of the store
SaveOutcome_no409(httpStatus) ==
  IF httpStatus \in 200..299 THEN "ok" ELSE "InternalServerError"

\* lines 632-638: what submitResponse makes of the store's answer
SaveOutcome(httpStatus) ==
  IF httpStatus \in 200..299 THEN "ok"
  ELSE IF httpStatus = 409 THEN "BadRequest"
  ELSE "InternalServerError"

SaveMessage(httpStatus) ==
  IF httpStatus = 409 THEN "Response already submitted for this question"
  ELSE "Failed to save response"

\* the POST of the response row and the reply, lines 625-652
SubmitSave(p) ==
  /\ req[p].op = "submit" /\ req[p].pc = "save"
  /\ LET r == req[p]
         row == ResponsePayload(r)
         httpStatus == InsertResponseStatus(row)
         outcome == SaveOutcome(httpStatus)
     IN  /\ responses' =
              IF httpStatus \in 200..299 THEN responses \cup {row} ELSE responses
         /\ req' = [req EXCEPT ![p] =
              IF outcome = "ok" THEN Reply([r EXCEPT !.session = NoSession], "ok")
              ELSE Throw(r, outcome, SaveMessage(httpStatus))]
  /\ UNCHANGED <<catalogue, runner, sessions, expirePatches, now>>

\* --------------------------------------- PUT session/:token/pause and /resume
BeginPause(p, student, token) ==
  /\ Idle(p)
  /\ token \in SessionIds => sessions[token].pause_count < MaxPauses
  /\ req' = [req EXCEPT ![p] = SessionFetched(
       [IdleReq EXCEPT !.op = "pause", !.pc = "session",
                       !.student = student, !.token = token])]
  /\ UNCHANGED <<catalogue, runner, sessions, responses, expirePatches, now>>

BeginResume(p, student, token) ==
  /\ Idle(p)
  /\ req' = [req EXCEPT ![p] = SessionFetched(
       [IdleReq EXCEPT !.op = "resume", !.pc = "session",
                       !.student = student, !.token = token])]
  /\ UNCHANGED <<catalogue, runner, sessions, responses, expirePatches, now>>

\* the metadata pauseAssessment and resumeAssessment write back
NewPauseCount(r) ==
  IF r.op = "pause" THEN r.session.pause_count + 1 ELSE r.session.pause_count

\* the PATCH of the metadata and the reply, lines 658-673 and 679-693
PatchMetadata(p) ==
  /\ req[p].op \in {"pause", "resume"} /\ req[p].pc = "metadata"
  /\ LET r == req[p]
     IN  /\ sessions' = [sessions EXCEPT ![r.session.id].pause_count =
                           NewPauseCount(r)]
         /\ req' = [req EXCEPT ![p] = Reply([r EXCEPT !.session = NoSession], "ok")]
  /\ UNCHANGED <<catalogue, runner, responses, expirePatches, now>>

\* -------------------------------------------- POST /v1/student/assessments/finish
BeginFinish(p, student, token) ==
  /\ Idle(p)
  /\ req' = [req EXCEPT ![p] = SessionFetched(
       [IdleReq EXCEPT !.op = "finish", !.pc = "session",
                       !.student = student, !.token = token])]
  /\ UNCHANGED <<catalogue, runner, sessions, responses, expirePatches, now>>

RECURSIVE SumPoints(_)
SumPoints(rows) ==
  IF rows = {} THEN 0
  ELSE LET x == CHOOSE y \in rows : TRUE
       IN  x.points_earned + SumPoints(rows \ {x})

\* round(100 * correct / total)
RoundPercent(correct, total) == (200 * correct + total) \div (2 * total)

\* the database function calculate_session_results: the aggregates of the
\* session's responses, and the status completed
calculate_session_results(session) ==
  LET rows == ResponsesOf(session.id)
      template == templates[session.template_id]
      total_questions == Len(assessment_template_questions[session.template_id])
      correct == Cardinality({ x \in rows : x.is_correct })
      percentage == RoundPercent(correct, total_questions)
  IN  [session EXCEPT !.status = "completed",
         !.correct_answers = correct,
         !.total_score = SumPoints(rows),
         !.percentage_score = percentage,
         !.passed = IF percentage >= template.passing_percentage
                    THEN "true" ELSE "false"]

\* a finish that goes on without the scoring call
FinishCalculate_noRpc(p) ==
  /\ req[p].op = "finish" /\ req[p].pc = "calculate"
  /\ req' = [req EXCEPT ![p] = Goto(req[p], "updatedSession")]
  /\ UNCHANGED <<catalogue, runner, sessions, responses, expirePatches, now>>

\* calculateSessionResults: the rpc call, lines 923-935
FinishCalculate(p) ==
  /\ req[p].op = "finish" /\ req[p].pc = "calculate"
  /\ LET r == req[p]
         id == r.session.id
     IN  /\ sessions' = [sessions EXCEPT ![id] = calculate_session_results(@)]
         /\ req' = [req EXCEPT ![p] = Goto(r, "updatedSession")]
  /\ UNCHANGED <<catalogue, runner, responses, expirePatches, now>>

\* ------------------------------- GET results/:sessionId and .../detailed
\* ...student_assessment_sessions?id=eq.ID&student_id=eq.STUDENT, line 767
ResultRows(sessionId, student) ==
  { i \in SessionIds :
      sessions[i].id = sessionId /\ sessions[i].student_id = student }

\* results handed out whatever the template says
ResultsOutcome_showAlways(session) ==
  IF session.status # "completed" THEN "BadRequest" ELSE "ok"

\* getAssessmentResults' checks on the fetched row, lines 779-785
ResultsOutcome(session) ==
  IF session.status # "completed" THEN "BadRequest"
  ELSE IF ~templates[session.template_id].show_results_immediately
       THEN "Forbidden"
       ELSE "ok"

ResultsMessage(outcome) ==
  IF outcome = "BadRequest"
  THEN "Results not available for incomplete sessions"
  ELSE "Results are not available immediately for this assessment"

\* the summary getAssessmentResults returns, lines 787-799
ResultsSummary(session) ==
  [session_id |-> session.id, total_score |-> session.total_score,
   percentage_score |-> session.percentage_score,
   correct_answers |-> session.correct_answers, passed |-> session.passed,
   attempt_number |-> session.attempt_number]

ResultOps == {"results", "detailed"}

\* getAssessmentResults, called by either route
BeginResults(p, op, student, sessionId) ==
  /\ Idle(p)
  /\ op \in ResultOps
  /\ LET r == [IdleReq EXCEPT !.op = op, !.student = student, !.token = sessionId]
         rows == ResultRows(sessionId, student)
         session == sessions[CHOOSE i \in rows : TRUE]
     IN  req' = [req EXCEPT ![p] =
           IF rows = {} THEN Throw(r, "NotFound", "Session not found")
           ELSE IF ResultsOutcome(session) # "ok"
                THEN Throw(r, ResultsOutcome(session),
                           ResultsMessage(ResultsOutcome(session)))
           ELSE IF op = "results"
                THEN Reply([r EXCEPT !.body = <<ResultsSummary(session)>>], "ok")
                ELSE [r EXCEPT !.pc = "detailedResponses",
                               !.body = <<ResultsSummary(session)>>]]
  /\ UNCHANGED <<catalogue, runner, sessions, responses, expirePatches, now>>

\* getDetailedResults: the responses of the session, lines 805-823
DetailedResponses(p) ==
  /\ req[p].op = "detailed" /\ req[p].pc = "detailedResponses"
  /\ LET r == req[p]
     IN  req' = [req EXCEPT ![p] =
           Reply([r EXCEPT !.body = Append(r.body, ResponsesOf(r.token))], "ok")]
  /\ UNCHANGED <<catalogue, runner, sessions, responses, expirePatches, now>>

\* ------------------------------------------------- the standalone flow
\* AssessmentService: start, the question set, and finish with its own
\* evaluation of the answers
SUPPORTED_TYPES ==
  {"mcq", "image_mcq", "text", "image_text", "short_text", "fill_blank"}
DEFAULT_LIMIT == 25
PASSING_SCORE == 72

\* the question ids, created_at descending
QuestionsByCreation == <<"q7", "q6", "q5", "q4", "q3", "q2", "q1">>

\* the type that is no type
NoType == "none"

\* a type check that takes every unknown tag for a text question
sanitizeQuestionType_unknownAsText(value) ==
  IF value \in {"mcq", "image_mcq"} THEN "mcq" ELSE "text"

sanitizeQuestionType(value) ==
  IF value = Null THEN NoType
  ELSE IF value \in {"mcq", "image_mcq"} THEN "mcq"
  ELSE IF value \in {"text", "image_text", "short_text", "fill_blank"}
  THEN "text"
  ELSE NoType

\* the text answer row that is no row
NoTextAnswer == [question_id |-> Null]

\* fetchOptions: the option rows of a question, order_index ascending
fetchOptions(question) == OptionsOf(question)

\* fetchTextAnswers: the text answer row of a question
fetchTextAnswers(question) ==
  IF TextAnswerRows(question) = {} THEN NoTextAnswer
  ELSE CHOOSE t \in TextAnswerRows(question) : TRUE

RECURSIVE SelectIds(_, _)
SelectIds(order, keep) ==
  IF order = << >> THEN << >>
  ELSE IF Head(order) \in keep
       THEN <<Head(order)>> \o SelectIds(Tail(order), keep)
       ELSE SelectIds(Tail(order), keep)

FirstOf(seq, n) == SubSeq(seq, 1, IF Len(seq) < n THEN Len(seq) ELSE n)

\* fetchQuestions: with ids, the rows of these ids; without, the active
\* rows of a supported type, newest first, DEFAULT_LIMIT at most
fetchQuestions(ids) ==
  LET selected ==
        IF ids # {}
        THEN { q \in QuestionIds : q \in ids }
        ELSE { q \in QuestionIds :
                 /\ assessment_questions[q].is_active \in {Null, "true"}
                 /\ assessment_questions[q].question_type \in SUPPORTED_TYPES }
      rows == IF ids # {}
              THEN SelectIds(QuestionsByCreation, selected)
              ELSE FirstOf(SelectIds(QuestionsByCreation, selected),
                           DEFAULT_LIMIT)
      mapped == SelectIds(rows,
                  { q \in selected :
                      /\ sanitizeQuestionType(
                           assessment_questions[q].question_type) # NoType
                      /\ ids = {} =>
                           assessment_questions[q].is_active # "false" })
  IN  [i \in DOMAIN mapped |->
         LET row == assessment_questions[mapped[i]]
             type == sanitizeQuestionType(row.question_type)
         IN  [id |-> row.id, type |-> type, prompt |-> row.question_text,
              points |-> IF row.points_value \notin {NoPoints, NonNumeric}
                         THEN row.points_value ELSE 1,
              options |-> IF type = "mcq" THEN fetchOptions(row.id) ELSE << >>,
              textAnswer |-> IF type = "text" THEN fetchTextAnswers(row.id)
                             ELSE NoTextAnswer,
              rawType |-> row.question_type]]

\* evaluateTextAnswer
evaluateTextAnswer(answer, spec) ==
  IF spec = NoTextAnswer THEN FALSE
  ELSE
  LET submitted == trim(answer)
      correctAnswer == trim(spec.correct_answer)
      normalize(v) == IF spec.case_sensitive THEN v ELSE toLowerCase(v)
      answerToCheck == normalize(submitted)
      correctToCheck == normalize(correctAnswer)
      alternates == spec.alternate_answers
      keywords == spec.keywords
      keywordMatches ==
        { i \in DOMAIN keywords :
            includes(answerToCheck, normalize(keywords[i])) }
  IN  IF submitted = << >> THEN FALSE
      ELSE IF correctAnswer = << >> THEN FALSE
      ELSE IF spec.exact_match
      THEN IF spec.case_sensitive
           THEN submitted = correctAnswer
           ELSE toLowerCase(submitted) = toLowerCase(correctAnswer)
      ELSE IF includes(answerToCheck, correctToCheck) THEN TRUE
      ELSE IF \E i \in DOMAIN alternates :
                includes(answerToCheck, normalize(alternates[i]))
      THEN TRUE
      ELSE IF Len(keywords) = 0 THEN FALSE
      ELSE Cardinality(keywordMatches) >= CeilHalf(Len(keywords))

\* the value no index has
NaN == -1

DigitOf(c) == CASE c = "0" -> 0 [] c = "1" -> 1 [] c = "2" -> 2 [] OTHER -> NaN

RECURSIVE DigitsValue(_, _)
DigitsValue(s, acc) ==
  IF s = << >> THEN acc
  ELSE IF DigitOf(Head(s)) = NaN THEN NaN
  ELSE DigitsValue(Tail(s), 10 * acc + DigitOf(Head(s)))

\* Number.isFinite(Number(answer)) ? parseInt(String(answer), 10) : NaN,
\* on null and on strings of digits, blanks and letters
OptionIndex(answer) ==
  IF trim(answer) = << >> THEN NaN ELSE DigitsValue(trim(answer), 0)

\* one entry of toSave
EvaluateResponse(assessmentId, response, questions) ==
  LET found == { i \in DOMAIN questions :
                   questions[i].id = response.question_id }
      question == questions[CHOOSE i \in found : TRUE]
      idx == OptionIndex(response.answer)
      hasOption == idx # NaN /\ (idx + 1) \in DOMAIN question.options
      option == question.options[idx + 1]
      submitted == trim(response.answer)
      storedAnswer ==
        IF found = {} THEN response.answer
        ELSE IF question.type = "mcq"
             THEN IF hasOption THEN option.option_text ELSE NoText
             ELSE submitted
      correct ==
        IF found = {} THEN FALSE
        ELSE IF question.type = "mcq"
             THEN hasOption /\ option.is_correct
             ELSE evaluateTextAnswer(submitted, question.textAnswer)
  IN  [assessment_id |-> assessmentId, q_index |-> response.q_index,
       question_id |-> response.question_id, answer_text |-> storedAnswer,
       correct |-> correct]

\* Math.round(correctCount / totalQuestions * 100), or 0 for no response
RunnerScore(correctCount, totalQuestions) ==
  IF totalQuestions > 0
  THEN (200 * correctCount + totalQuestions) \div (2 * totalQuestions)
  ELSE 0

CorrectCount(toSave) == Cardinality({ i \in DOMAIN toSave : toSave[i].correct })

\* finish: score, passed, total and correct of the reply
RunnerSummary(toSave, body) ==
  LET score == RunnerScore(CorrectCount(toSave), Len(body))
  IN  [score |-> score, passed |-> score >= PASSING_SCORE,
       total |-> Len(body), correct |-> CorrectCount(toSave)]

\* the entry of getQuestionSet for one question
RunnerQuestion(question) ==
  IF question.type = "mcq"
  THEN [id |-> question.id, type |-> "mcq", prompt |-> question.prompt,
        options |-> [i \in DOMAIN question.options |->
                       question.options[i].option_text],
        rawType |-> question.rawType]
  ELSE [id |-> question.id, type |-> "text", prompt |-> question.prompt,
        rawType |-> question.rawType]

\* start: the POST of an assessments row
RunnerStart(p, userId) ==
  /\ Idle(p)
  /\ Len(assessments) < MaxAssessments
  /\ assessments' = Append(assessments,
       [id |-> Len(assessments) + 1, user_id |-> userId,
        completed |-> FALSE, score |-> 0, passed |-> FALSE])
  /\ req' = [req EXCEPT ![p] =
       [IdleReq EXCEPT !.op = "runnerStart", !.pc = "questionSet",
                       !.student = userId, !.token = Len(assessments) + 1]]
  /\ UNCHANGED <<catalogue, assessment_responses, profiles, sessions,
                 responses, expirePatches, now>>

\* getQuestionSet, after start
RunnerQuestionSet(p) ==
  /\ req[p].op = "runnerStart" /\ req[p].pc = "questionSet"
  /\ LET questions == fetchQuestions({})
     IN  req' = [req EXCEPT ![p] =
           Reply([req[p] EXCEPT !.questions = questions, !.body =
                    [i \in DOMAIN questions |-> RunnerQuestion(questions[i])]],
                 "ok")]
  /\ UNCHANGED <<catalogue, runner, sessions, responses, expirePatches, now>>

\* finish of the service over the database, and of the one over QUESTIONS
FinishOps == {"runnerFinish", "legacyFinish"}

RunnerFinishesInFlight ==
  { q \in Slots : req[q].op \in FinishOps /\ InFlight(q) }

\* finish: the fetch of the questions and the evaluation of the answers
RunnerFinish(p, userId, assessmentId, body) ==
  /\ Idle(p)
  /\ assessment_responses = {} /\ RunnerFinishesInFlight = {}
  /\ LET questionIds == { body[i].question_id : i \in DOMAIN body } \ {Null}
         questions == fetchQuestions(questionIds)
         toSave == [i \in DOMAIN body |->
                      EvaluateResponse(assessmentId, body[i], questions)]
     IN  req' = [req EXCEPT ![p] =
           [IdleReq EXCEPT !.op = "runnerFinish", !.pc = "saveResponses",
                           !.student = userId, !.token = assessmentId,
                           !.answers = body, !.toSave = toSave,
                           !.questions = questions,
                           !.body = <<RunnerSummary(toSave, body)>>]]
  /\ UNCHANGED <<catalogue, runner, sessions, responses, expirePatches, now>>

\* finish: the POST of the response rows
RunnerSaveResponses(p) ==
  /\ req[p].op \in FinishOps /\ req[p].pc = "saveResponses"
  /\ assessment_responses' =
       assessment_responses \cup
         { req[p].toSave[i] : i \in DOMAIN req[p].toSave }
  /\ req' = [req EXCEPT ![p] = Goto(req[p], "updateAssessment")]
  /\ UNCHANGED <<catalogue, assessments, profiles, sessions, responses,
                 expirePatches, now>>

\* finish: the PATCH of the assessments row id=eq.<assessmentId>
RunnerUpdateAssessment(p) ==
  /\ req[p].op \in FinishOps /\ req[p].pc = "updateAssessment"
  /\ LET r == req[p]
         score == r.body[1].score
         passed == r.body[1].passed
     IN  /\ assessments' =
              [i \in DOMAIN assessments |->
                 IF assessments[i].id = r.token
                 THEN [assessments[i] EXCEPT !.completed = TRUE,
                                             !.score = score,
                                             !.passed = passed]
                 ELSE assessments[i]]
         /\ req' = [req EXCEPT ![p] = Goto(r, "updateProfile")]
  /\ UNCHANGED <<catalogue, assessment_responses, profiles, sessions,
                 responses, expirePatches, now>>

\* finish: the PATCH of the profile, and the reply
RunnerUpdateProfile(p) ==
  /\ req[p].op \in FinishOps /\ req[p].pc = "updateProfile"
  /\ profiles' = profiles \cup {req[p].student}
  /\ req' = [req EXCEPT ![p] = Reply(req[p], "ok")]
  /\ UNCHANGED <<catalogue, assessments, assessment_responses, sessions,
                 responses, expirePatches, now>>

\* ------------------------------- AssessmentService over the QUESTIONS bank
\* QUESTIONS: 25 mcq questions; answerIndex and the number of options
AnswerIndexes ==
  <<2, 0, 2, 0, 0, 3, 1, 1, 1, 2, 3, 2, 3, 1, 0, 0, 2, 2, 1, 2, 0, 0, 0, 0, 0>>

QUESTIONS ==
  [n \in 1..25 |->
     [id |-> n, type |-> "mcq", options |-> IF n = 17 THEN 3 ELSE 4,
      answerIndex |-> AnswerIndexes[n]]]

\* String(n) of an index
DigitString(n) ==
  CASE n = 0 -> <<"0">> [] n = 1 -> <<"1">> [] n = 2 -> <<"2">>
    [] n = 3 -> <<"3">> [] OTHER -> <<"9">>

\* one entry of toSave of the service over QUESTIONS
LegacyEvaluateResponse(assessmentId, r) ==
  LET found == { n \in DOMAIN QUESTIONS : QUESTIONS[n].id = r.question_id }
      q == QUESTIONS[CHOOSE n \in found : TRUE]
      idx == OptionIndex(r.answer)
      correct == found # {} /\ DigitString(q.answerIndex) = r.answer
      storedAnswer ==
        IF found = {} \/ idx = NaN THEN r.answer
        ELSE IF idx < q.options THEN <<"option">> \o DigitString(idx)
        ELSE NoText
  IN  [assessment_id |-> assessmentId, q_index |-> r.q_index,
       question_id |-> r.question_id, answer_text |-> storedAnswer,
       correct |-> correct]

\* passed = correctCount >= 18, score over QUESTIONS.length
LegacySummary(toSave) ==
  [score |-> RunnerScore(CorrectCount(toSave), Len(QUESTIONS)),
   passed |-> CorrectCount(toSave) >= 18,
   total |-> Len(QUESTIONS), correct |-> CorrectCount(toSave)]

\* finish of the service over QUESTIONS: the evaluation of the answers
LegacyFinish(p, userId, assessmentId, body) ==
  /\ Idle(p)
  /\ assessment_responses = {} /\ RunnerFinishesInFlight = {}
  /\ LET toSave == [i \in DOMAIN body |->
                      LegacyEvaluateResponse(assessmentId, body[i])]
     IN  req' = [req EXCEPT ![p] =
           [IdleReq EXCEPT !.op = "legacyFinish", !.pc = "saveResponses",
                           !.student = userId, !.token = assessmentId,
                           !.answers = body, !.toSave = toSave,
                           !.body = <<LegacySummary(toSave)>>]]
  /\ UNCHANGED <<catalogue, runner, sessions, responses, expirePatches, now>>

RunnerSteps(p) ==
  \/ RunnerQuestionSet(p)
  \/ RunnerSaveResponses(p)
  \/ RunnerUpdateAssessment(p)
  \/ RunnerUpdateProfile(p)

\* the reply has left the server: the slot is free again
Return(p) ==
  /\ req[p].pc = "done"
  /\ req' = [req EXCEPT ![p] = IdleReq]
  /\ UNCHANGED <<catalogue, runner, sessions, responses, expirePatches, now>>

\* ---------------------------------------- AdminAssessmentService.createTemplate
\* the ids the store gives to new template rows
NewTemplateIds == {"t5", "t6"}

\* CreateTemplateDto: the settings, and the question ids
TemplateDtos ==
  { [question_ids |-> ids, is_public |-> public, max_attempts |-> 2,
     time_limit_minutes |-> 1, passing_percentage |-> 50,
     allow_retakes |-> TRUE, show_results_immediately |-> TRUE,
     randomize_questions |-> FALSE, randomize_options |-> FALSE] :
      ids \in { << >>, <<"q1">>, <<"q1", "q2">>, <<"q3", NoQuestion>> },
      public \in BOOLEAN }

\* templatePayload, and the is_active the table gives a new row
templatePayload(templateData) ==
  [ is_active |-> TRUE, is_public |-> templateData.is_public,
    max_attempts |-> templateData.max_attempts,
    time_limit_minutes |-> templateData.time_limit_minutes,
    passing_percentage |-> templateData.passing_percentage,
    allow_retakes |-> templateData.allow_retakes,
    show_results_immediately |-> templateData.show_results_immediately,
    randomize_questions |-> templateData.randomize_questions,
    randomize_options |-> templateData.randomize_options,
    total_questions |-> Len(templateData.question_ids) ]

\* the POST of the template row; the store answers ok or not
CreateTemplate(p, templateData, ok) ==
  /\ Idle(p)
  /\ NewTemplateIds \ DOMAIN templates # {}
  /\ LET id == CHOOSE t \in NewTemplateIds : t \notin DOMAIN templates
         r == [IdleReq EXCEPT !.op = "createTemplate",
                              !.question_ids = templateData.question_ids]
     IN  IF ok
         THEN /\ templates' = templates @@ (id :> templatePayload(templateData))
              /\ req' = [req EXCEPT ![p] =
                   [r EXCEPT !.pc = "templateQuestions", !.template = id]]
         ELSE /\ templates' = templates
              /\ req' = [req EXCEPT ![p] =
                   Throw(r, "InternalServerError", "Failed to create template")]
  /\ UNCHANGED <<assessment_text_answers, assessment_question_options,
                 assessment_template_questions, gate, runner, sessions,
                 responses, expirePatches, now>>

\* the store takes the links: every question id names a question row
LinksInsertable(question_ids) ==
  \A i \in DOMAIN question_ids : question_ids[i] \in QuestionIds

\* the POST of the links, all in one request; when the store refuses, the
\* cleanup is next
CreateTemplateQuestions(p, ok) ==
  /\ req[p].op = "createTemplate" /\ req[p].pc = "templateQuestions"
  /\ ok => LinksInsertable(req[p].question_ids)
  /\ LET r == req[p]
     IN  IF ok
         THEN /\ assessment_template_questions' =
                   assessment_template_questions
                     @@ (r.template :> r.question_ids)
              /\ req' = [req EXCEPT ![p] = Goto(r, "getTemplateById")]
         ELSE /\ assessment_template_questions' = assessment_template_questions
              /\ req' = [req EXCEPT ![p] = Goto(r, "deleteTemplate")]
  /\ UNCHANGED <<templates, assessment_text_answers,
                 assessment_question_options, gate, runner, sessions,
                 responses, expirePatches, now>>

\* a cleanup that raises the error and leaves the row
CreateTemplateCleanup_keepsRow(p, ok) ==
  /\ req[p].op = "createTemplate" /\ req[p].pc = "deleteTemplate"
  /\ req' = [req EXCEPT ![p] =
       Throw(req[p], "InternalServerError",
             IF ok THEN "Failed to assign questions to template"
                   ELSE "Failed to delete template")]
  /\ UNCHANGED <<catalogue, runner, sessions, responses, expirePatches, now>>

\* deleteTemplate after the refused links, then the error of createTemplate;
\* a refused DELETE raises its own error
CreateTemplateCleanup(p, ok) ==
  /\ req[p].op = "createTemplate" /\ req[p].pc = "deleteTemplate"
  /\ LET r == req[p]
     IN  IF ok
         THEN /\ templates' =
                   [t \in DOMAIN templates \ {r.template} |-> templates[t]]
              /\ req' = [req EXCEPT ![p] =
                   Throw(r, "InternalServerError",
                         "Failed to assign questions to template")]
         ELSE /\ templates' = templates
              /\ req' = [req EXCEPT ![p] =
                   Throw(r, "InternalServerError", "Failed to delete template")]
  /\ UNCHANGED <<assessment_text_answers, assessment_question_options,
                 assessment_template_questions, gate, runner, sessions,
                 responses, expirePatches, now>>

\* getTemplateById, the reply of createTemplate: the row and its questions
CreateTemplateReadBack(p, ok) ==
  /\ req[p].op = "createTemplate" /\ req[p].pc = "getTemplateById"
  /\ LET r == req[p]
     IN  req' = [req EXCEPT ![p] =
           IF ~ok
           THEN Throw(r, "InternalServerError", "Failed to fetch template")
           ELSE IF r.template \notin DOMAIN templates
           THEN Throw(r, "NotFound", "Template not found")
           ELSE Reply([r EXCEPT !.body =
                  <<[template |-> templates[r.template],
                     questions |-> assessment_template_questions[r.template]]>>],
                  "ok")]
  /\ UNCHANGED <<catalogue, runner, sessions, responses, expirePatches, now>>

AdminSteps(p) ==
  \/ \E ok \in BOOLEAN : CreateTemplateQuestions(p, ok)
  \/ \E ok \in BOOLEAN : CreateTemplateCleanup(p, ok)
  \/ \E ok \in BOOLEAN : CreateTemplateReadBack(p, ok)

\* ------------------------------------------------------ SupabaseGuard
\* the routes of AppController, ProfileController and AssessmentController
Routes == {"health", "me", "profile", "assessments/latest"}

\* the guard on GET me alone
UsesGuard_onlyMe(route) == route = "me"

\* @UseGuards(SupabaseGuard) on the route
UsesGuard(route) == route \in {"me", "profile", "assessments/latest"}

\* the token that is no JWT
Malformed_token == [wellFormed |-> FALSE]

\* bearer tokens: three dot-separated parts or not, signed by a key of the
\* JWKS or not, with an exp claim (0: none), a subject, an email, an issuer
JwtTokens ==
  {Malformed_token} \cup
  { [wellFormed |-> TRUE, signed |-> sg, exp |-> e, sub |-> sb,
     email |-> "mail", iss |-> is] :
      sg \in BOOLEAN, e \in {0, 1}, sb \in {"s1", Null},
      is \in {"supabase", "other"} }

Authorizations ==
  {NoHeader, [scheme |-> "Basic"]} \cup
  { [scheme |-> "Bearer", token |-> t] : t \in JwtTokens }

\* process.env.NODE_ENV and process.env.ALLOW_DEV_UNVERIFIED_JWT
Environments ==
  { [NODE_ENV |-> n, ALLOW_DEV_UNVERIFIED_JWT |-> a] :
      n \in {"test", "production", "development"}, a \in {"1", Null} }

\* auth?.startsWith('Bearer ')
startsWithBearer(auth) == auth.scheme = "Bearer"

\* decodeJwt(token) returns
decodeJwt_ok(token) == token.wellFormed

\* decodedPayload.exp && Date.now() >= decodedPayload.exp * 1000
TokenExpired(token) == token.exp # 0 /\ now >= token.exp

\* jwtVerify(token, jwks) returns: the signature verifies and the token has
\* not expired
jwtVerify_ok(token) ==
  /\ token.wellFormed /\ token.signed
  /\ ~(token.exp # 0 /\ now >= token.exp)

\* the condition of the unverified fallback
AllowsUnverified(env, token) ==
  \/ env.ALLOW_DEV_UNVERIFIED_JWT = "1"
  \/ env.NODE_ENV = "test"
  \/ /\ env.NODE_ENV = "production"
     /\ token.sub # Null
     /\ token.iss = "supabase"

Unauthorized(g, message) ==
  [g EXCEPT !.pc = "done", !.status = 401, !.message = message]

\* canActivate up to its await
GuardChecks(g) ==
  LET auth == g.authorization
  IN  IF ~startsWithBearer(auth) THEN Unauthorized(g, "Missing token")
      ELSE IF ~decodeJwt_ok(auth.token) THEN Unauthorized(g, "Malformed token")
      ELSE IF TokenExpired(auth.token) THEN Unauthorized(g, "Token expired")
      ELSE [g EXCEPT !.pc = "verify"]

\* a request arrives at a route, the one before it answered; a guarded
\* route runs canActivate first
HttpRequest(route, authorization) ==
  /\ gate.pc \in {"idle", "done"}
  /\ LET g == [IdleGate(gate.env) EXCEPT !.route = route,
                                        !.authorization = authorization]
     IN  gate' = IF UsesGuard(route) THEN GuardChecks(g)
                 ELSE [g EXCEPT !.pc = "handler"]
  /\ UNCHANGED <<tables, runner, sessions,
                 responses, expirePatches, now, req>>

\* canActivate after jwtVerify
GuardVerify ==
  /\ gate.pc = "verify"
  /\ LET token == gate.authorization.token
     IN  gate' =
           IF jwtVerify_ok(token)
           THEN [gate EXCEPT !.pc = "handler",
                             !.user = [id |-> token.sub, email |-> token.email]]
           ELSE IF AllowsUnverified(gate.env, token)
           THEN [gate EXCEPT !.pc = "handler",
                             !.user = [id |-> token.sub, email |-> token.email]]
           ELSE Unauthorized(gate, "Invalid token")
  /\ UNCHANGED <<tables, runner, sessions,
                 responses, expirePatches, now, req>>

\* the handler of the route runs; GET me returns req.user
RouteHandler ==
  /\ gate.pc = "handler"
  /\ gate' = [gate EXCEPT !.pc = "done", !.handled = TRUE, !.status = 200,
                          !.body = IF gate.route = "me" THEN gate.user
                                   ELSE NoUser]
  /\ UNCHANGED <<tables, runner, sessions,
                 responses, expirePatches, now, req>>

AuthInit ==
  /\ templates \in Catalogues
  /\ assessment_question_options = SeedOptions
  /\ assessment_template_questions = SeedTemplateQuestions
  /\ assessment_text_answers = SeedTextAnswers
  /\ gate \in { IdleGate(env) : env \in Environments }
  /\ assessments = << >>
  /\ assessment_responses = {}
  /\ profiles = {}
  /\ sessions = << >>
  /\ responses = {}
  /\ expirePatches = << >>
  /\ now = 0
  /\ req = [p \in Slots |-> IdleReq]

AuthNext ==
  \/ Tick
  \/ \E route \in Routes, authorization \in Authorizations :
       HttpRequest(route, authorization)
  \/ GuardVerify
  \/ RouteHandler

AuthSpec == AuthInit /\ [][AuthNext]_vars

\* --------------------------------------------------------- specifications
StartSteps(p) ==
  \/ StartActiveSessions(p)
  \/ StartAttemptCount(p)
  \/ StartTemplate(p)
  \/ StartAttempts(p)
  \/ StartInsertSession(p)
  \/ StartSessionQuestions(p)

SessionSteps(p) ==
  \/ FetchSession(p)
  \/ ExpireSession(p)
  \/ FetchResponses(p)

AnswerSteps(p) ==
  \/ QuestionFetch(p)
  \/ QuestionExistingResponse(p)
  \/ SubmitQuestion(p)
  \/ SubmitScore(p)
  \/ SubmitSave(p)
  \/ PatchMetadata(p)

AllIdle == \A q \in Slots : Idle(q)

\* The life of the sessions of one student on one template, request after
\* request: s1 takes t1, and every student sends the session requests,
\* with every token.
Owner == "s1"
OwnerTemplates == {"t1"}

Begin(p) ==
  \/ \E template \in OwnerTemplates : BeginStart(p, Owner, template)
  \/ \E student \in Students, token \in Tokens : BeginGet(p, student, token)
  \/ \E student \in Students, token \in Tokens,
        question \in {"q1", NoQuestion} :
       BeginQuestion(p, student, token, question)
  \/ \E student \in Students, token \in Tokens \cup {BlankToken},
        dto \in SubmitDtos :
       BeginSubmit(p, student, token, dto)
  \/ \E student \in Students, token \in Tokens : BeginPause(p, student, token)
  \/ \E student \in Students, token \in Tokens : BeginResume(p, student, token)
  \/ \E student \in Students, token \in Tokens : BeginFinish(p, student, token)
  \/ \E op \in ResultOps, student \in Students, token \in Tokens :
       BeginResults(p, op, student, token)

Next ==
  \/ Tick
  \/ AllIdle /\ Begin(1)
  \/ StartSteps(1)
  \/ SessionSteps(1)
  \/ AnswerSteps(1)
  \/ FinishCalculate(1)
  \/ DetailedResponses(1)
  \/ Return(1)

Spec == Init /\ [][Next]_vars

\* The attempt policy, request after request: every student starts every
\* template, and the owner of a session reads and finishes it.
OwnerOf(token) == sessions[token].student_id

PolicyBegin(p) ==
  \/ \E student \in Students, template \in TemplateIds \cup {NoTemplate} :
       BeginStart(p, student, template)
  \/ \E token \in SessionIds : BeginGet(p, OwnerOf(token), token)
  \/ \E token \in SessionIds : BeginFinish(p, OwnerOf(token), token)
  \/ \E op \in ResultOps, student \in Students, token \in Tokens :
       BeginResults(p, op, student, token)

PolicyNext ==
  \/ Tick
  \/ AllIdle /\ PolicyBegin(1)
  \/ StartSteps(1)
  \/ SessionSteps(1)
  \/ FinishCalculate(1)
  \/ DetailedResponses(1)
  \/ Return(1)

PolicySpec == Init /\ [][PolicyNext]_vars

\* Requests that interleave at every call to the store: the owner starts
\* the capped template from every slot, up to MaxRaceSessions sessions, and
\* finishes what was started.
RaceBegin(p) ==
  \/ /\ Len(sessions) + Cardinality(StartsInFlight) < MaxRaceSessions
     /\ \E template \in OwnerTemplates : BeginStart(p, Owner, template)
  \/ \E token \in SessionIds : BeginFinish(p, OwnerOf(token), token)

RaceNext ==
  \/ Tick
  \/ \E p \in Slots :
       \/ RaceBegin(p)
       \/ StartSteps(p)
       \/ SessionSteps(p)
       \/ FinishCalculate(p)
       \/ Return(p)

RaceSpec == Init /\ [][RaceNext]_vars

\* The scoring of choice answers: the owner takes t2 and answers choice
\* questions with option ids that resolve and that do not.
ChoiceDtos ==
  { [question |-> d[1], option |-> d[2], text |-> NoText, time_spent |-> 0] :
      d \in { <<"q3", "o3">>, <<"q3", "o4">>, <<"q3", NoOption>>,
              <<"q4", "o4">>, <<"q4", "o3">>, <<"q1", "o1">>, <<"q1", "o2">> } }

ChoiceBegin(p) ==
  \/ BeginStart(p, Owner, "t2")
  \/ \E token \in SessionIds, dto \in ChoiceDtos :
       BeginSubmit(p, Owner, token, dto)

ChoiceNext ==
  \/ AllIdle /\ ChoiceBegin(1)
  \/ StartActiveSessions(1)
  \/ StartTemplate(1)
  \/ StartAttempts(1)
  \/ StartInsertSession(1)
  \/ StartSessionQuestions(1)
  \/ FetchResponses(1)
  \/ SubmitQuestion(1)
  \/ SubmitScore(1)
  \/ SubmitSave(1)
  \/ Return(1)

ChoiceSpec == Init /\ [][ChoiceNext]_vars

\* The evaluation of text answers by both services: the text answer row of
\* q2 is any row of AnswerSpecs; the owner takes t1 and answers q2 through
\* submitResponse, and finishes a standalone assessment on q2.
Canonicals == { <<" ">>, <<"a", "b">>, <<"A", "b", " ">> }
Alternates == { << >>, << << >> >>, << <<"B">> >> }
Keywords == { << >>, << << >> >>, << <<"x">>, <<"y">>, <<"z">> >> }

AnswerSpecs ==
  { [question_id |-> "q2", correct_answer |-> c, case_sensitive |-> cs,
     exact_match |-> em, alternate_answers |-> alt, keywords |-> kw] :
      c \in Canonicals, cs \in BOOLEAN, em \in BOOLEAN,
      alt \in Alternates, kw \in Keywords }

TextSubmissions ==
  { <<" ">>, <<"a", "b">>, <<" ", "A", "B">>, <<"A", "b">>,
    <<"c", "a", "b">>, <<"b">>, <<"x", "z">>, <<"x">> }

TextDtos ==
  { [question |-> "q2", option |-> Null, text |-> t, time_spent |-> 0] :
      t \in TextSubmissions }

\* the bodies of finish: one answer to q2, to q1, or to no question
RunnerBodies ==
  { <<[q_index |-> 0, question_id |-> "q2", answer |-> t]>> :
      t \in TextSubmissions \cup {NoText} }
  \cup
  { <<[q_index |-> 0, question_id |-> d[1], answer |-> d[2]]>> :
      d \in { <<"q1", <<"0">>>>, <<"q1", <<"1">>>>, <<"q1", <<"2">>>>,
              <<"q1", <<"x">>>>, <<NoQuestion, <<"0">>>>, <<Null, NoText>> } }

TextInit ==
  /\ templates \in Catalogues
  /\ assessment_question_options = SeedOptions
  /\ assessment_template_questions = SeedTemplateQuestions
  /\ assessment_text_answers \in { {spec} : spec \in AnswerSpecs }
  /\ assessments = << >>
  /\ assessment_responses = {}
  /\ profiles = {}
  /\ gate = DefaultGate
  /\ sessions = << >>
  /\ responses = {}
  /\ expirePatches = << >>
  /\ now = 0
  /\ req = [p \in Slots |-> IdleReq]

TextBegin(p) ==
  \/ BeginStart(p, Owner, "t1")
  \/ \E token \in SessionIds, dto \in TextDtos :
       BeginSubmit(p, Owner, token, dto)
  \/ RunnerStart(p, Owner)
  \/ \E i \in DOMAIN assessments, body \in RunnerBodies :
       RunnerFinish(p, Owner, i, body)

TextNext ==
  \/ AllIdle /\ TextBegin(1)
  \/ StartActiveSessions(1)
  \/ StartAttemptCount(1)
  \/ StartTemplate(1)
  \/ StartAttempts(1)
  \/ StartInsertSession(1)
  \/ StartSessionQuestions(1)
  \/ FetchResponses(1)
  \/ SubmitQuestion(1)
  \/ SubmitScore(1)
  \/ SubmitSave(1)
  \/ RunnerQuestionSet(1)
  \/ RunnerSaveResponses(1)
  \/ RunnerUpdateAssessment(1)
  \/ RunnerUpdateProfile(1)
  \/ Return(1)

TextSpec == TextInit /\ [][TextNext]_vars

\* The standalone flow on its own: a user starts an assessment and finishes
\* it with up to MaxBody answers, to questions of every kind, active or
\* not, known or not.
MaxBody == 3

RunnerAnswers ==
  { <<"q1", <<"0">>>>, <<"q1", <<"3">>>>, <<"q2", <<"a", "b">>>>,
    <<"q5", <<"a">>>>, <<"q6", <<"a">>>>, <<"q7", NoText>>,
    <<NoQuestion, <<"0">>>> }

FinishBodies ==
  UNION { { [i \in 1..n |->
              [q_index |-> i - 1, question_id |-> picks[i][1],
               answer |-> picks[i][2]]] :
            picks \in [1..n -> RunnerAnswers] } : n \in 0..MaxBody }

\* the bodies for the QUESTIONS bank: the first n questions answered, the
\* first k of them with the answer index, the others with an index no
\* question has
LegacyBodies ==
  { [i \in 1..n |->
       [q_index |-> i - 1, question_id |-> i,
        answer |-> IF i <= k THEN DigitString(AnswerIndexes[i])
                   ELSE <<"9">>]] :
      n \in 0..25, k \in 0..25 }

RunnerBegin(p) ==
  \/ RunnerStart(p, Owner)
  \/ \E i \in DOMAIN assessments, body \in FinishBodies :
       RunnerFinish(p, Owner, i, body)
  \/ \E i \in DOMAIN assessments, body \in LegacyBodies :
       LegacyFinish(p, Owner, i, body)

RunnerNext ==
  \/ AllIdle /\ RunnerBegin(1)
  \/ RunnerQuestionSet(1)
  \/ RunnerSaveResponses(1)
  \/ RunnerUpdateAssessment(1)
  \/ RunnerUpdateProfile(1)
  \/ Return(1)

RunnerSpec == Init /\ [][RunnerNext]_vars

\* Answers that interleave with the finish of their session at every call
\* to the store: the owner starts one session of t1, and then sends answers
\* and finish requests from every slot.
AnswerRaceDtos ==
  { dto \in SubmitDtos : /\ dto.question \in {"q1", "q2"}
                         /\ dto.time_spent = 0
                         /\ (dto.option = Null) # (dto.text = NoText) }

AnswerRaceBegin(p) ==
  \/ AllIdle /\ sessions = << >> /\ BeginStart(p, Owner, "t1")
  \/ \E token \in SessionIds, dto \in AnswerRaceDtos :
       BeginSubmit(p, Owner, token, dto)
  \/ \E token \in SessionIds : BeginFinish(p, Owner, token)

AnswerRaceNext ==
  \/ Tick
  \/ \E p \in Slots :
       \/ AnswerRaceBegin(p)
       \/ StartSteps(p)
       \/ SessionSteps(p)
       \/ SubmitQuestion(p)
       \/ SubmitScore(p)
       \/ SubmitSave(p)
       \/ FinishCalculate(p)
       \/ Return(p)

AnswerRaceSpec == Init /\ [][AnswerRaceNext]_vars

\* Retakes: the templates allow retakes or forbid them; the owner starts
\* and finishes attempts, request after request, and a finish is followed
\* at once by a start of the same student on the same template, sent while
\* the reply of the finish is still at hand.
RetakeCatalogues ==
  { [t \in TemplateIds |->
       IF t \in {"t1", "t2"}
       THEN [catalogue_[t] EXCEPT !.allow_retakes = allow[t]]
       ELSE catalogue_[t]] :
      catalogue_ \in Catalogues, allow \in [{"t1", "t2"} -> BOOLEAN] }

RetakeInit ==
  /\ templates \in RetakeCatalogues
  /\ assessment_question_options = SeedOptions
  /\ assessment_template_questions = SeedTemplateQuestions
  /\ assessment_text_answers = SeedTextAnswers
  /\ assessments = << >>
  /\ assessment_responses = {}
  /\ profiles = {}
  /\ gate = DefaultGate
  /\ sessions = << >>
  /\ responses = {}
  /\ expirePatches = << >>
  /\ now = 0
  /\ req = [p \in Slots |-> IdleReq]

RetakeBegin(p) ==
  \/ \E template \in {"t1", "t2"} : BeginStart(p, Owner, template)
  \/ \E token \in SessionIds : BeginFinish(p, OwnerOf(token), token)

\* the finish in slot 1 has replied
Finished == req[1].op = "finish" /\ req[1].pc = "done" /\ req[1].status = "ok"

\* the start that follows the finish
RetakeStart ==
  /\ Finished
  /\ BeginStart(2, req[1].student, sessions[req[1].token].template_id)

\* both replies are taken
RetakeReturn ==
  /\ req[1].pc = "done" /\ req[2].pc = "done"
  /\ req' = [p \in Slots |-> IdleReq]
  /\ UNCHANGED <<catalogue, runner, sessions, responses, expirePatches, now>>

RetakeNext ==
  \/ Tick
  \/ AllIdle /\ RetakeBegin(1)
  \/ StartSteps(1)
  \/ SessionSteps(1)
  \/ FinishCalculate(1)
  \/ Idle(2) /\ Return(1)
  \/ RetakeStart
  \/ StartSteps(2)
  \/ RetakeReturn

RetakeSpec == RetakeInit /\ [][RetakeNext]_vars

\* The authoring of templates: an admin creates templates, one request
\* after the other, and the store refuses any of the calls.
AdminNext ==
  \/ \E templateData \in TemplateDtos, ok \in BOOLEAN :
       CreateTemplate(1, templateData, ok)
  \/ AdminSteps(1)
  \/ Return(1)

AdminSpec == Init /\ [][AdminNext]_vars

\* ------------------------------------------------------------ properties
SessionOps == {"get", "question", "submit", "pause", "resume", "finish"}

\* slot p takes a request of the owner of session i that reads the session
Reads(p, op, i) ==
  /\ req[p].pc = "idle"
  /\ req'[p].op = op
  /\ req'[p].token = i
  /\ req'[p].student = sessions[i].student_id
  /\ req'[p].message \notin ShapeMessages

Rejected(r, exception) == r.pc = "done" /\ r.status = exception

\* C1: a session never holds two Response rows for one question, a stored
\* row is never changed or removed, and a submission that reaches the store
\* for a question the session has answered is rejected with BadRequest and
\* adds no row.
C1_OneResponsePerQuestion ==
  [][ /\ responses \subseteq responses'
      /\ \A x, y \in responses' :
           (x.session_id = y.session_id /\ x.question_id = y.question_id)
             => x = y
      /\ \A p \in Slots :
           ( /\ req[p].op = "submit" /\ req[p].pc = "save"
             /\ req'[p] # req[p]
             /\ Answered(req[p].session.id, req[p].question) )
             => /\ Rejected(req'[p], "BadRequest")
                /\ responses' = responses ]_vars

C1_Witness ==
  \E p \in Slots :
    /\ req[p].op = "submit"
    /\ Rejected(req[p], "BadRequest")
    /\ req[p].message = "Response already submitted for this question"
    /\ ResponsesOf(req[p].token) # {}

\* C2: once the status of a session is completed it stays completed, and
\* once it is expired it stays expired.
C2_StatusTerminal ==
  [][ \A i \in SessionIds :
        /\ sessions[i].status = "completed" => sessions'[i].status = "completed"
        /\ sessions[i].status = "expired" => sessions'[i].status = "expired"
    ]_vars

\* C3: a read of an in_progress session whose expires_at has passed goes on
\* to write the status expired and is answered Forbidden; a read of a session
\* whose status is expired is answered Forbidden at once and writes nothing;
\* the PATCH to expired is issued at most once per session, and exactly once
\* for a session whose status is expired; an expired session stays expired,
\* so every later finish meets the Forbidden.
C3_LazyExpiry ==
  [][ \A i \in SessionIds : \A p \in Slots :
        LET s == sessions[i]
        IN  /\ \A op \in SessionOps :
                 Reads(p, op, i) =>
                   /\ (s.status = "in_progress" /\ now > s.expires_at)
                        => req'[p].pc = "expire"
                   /\ s.status = "expired"
                        => /\ Rejected(req'[p], "Forbidden")
                           /\ UNCHANGED <<sessions, expirePatches>>
            /\ (req[p].pc \in ExpirePcs /\ req[p].session.id = i /\ req'[p] # req[p])
                 => /\ sessions'[i].status = "expired"
                    /\ Rejected(req'[p], "Forbidden")
            /\ expirePatches'[i] <= 1
            /\ sessions'[i].status = "expired" => expirePatches'[i] = 1
            /\ s.status = "expired" => sessions'[i].status = "expired" ]_vars

C3_Witness ==
  \E p \in Slots :
    /\ req[p].op = "finish"
    /\ Rejected(req[p], "Forbidden")
    /\ req[p].token \in SessionIds
    /\ sessions[req[p].token].status = "expired"
    /\ sessions[req[p].token].passed = Null
    /\ expirePatches[req[p].token] = 1

\* the fields of a session row that final scoring writes
Scored(session) ==
  <<session.total_score, session.correct_answers, session.percentage_score,
    session.passed>>

\* C5: a finish goes through only for a session that is in_progress and
\* not past expires_at, and then the session is completed when the reply
\* leaves; a finish on a completed session is rejected with BadRequest, one
\* on an expired session with Forbidden; a finish that is rejected has not
\* changed the score or the passed flag of the session, nor its status
\* (the lazy expiry of an in_progress session is not held against it).
C5_FinishContract ==
  [][ \A i \in SessionIds : \A p \in Slots :
        LET s == sessions[i]
        IN  /\ Reads(p, "finish", i) =>
                 /\ s.status = "completed" => req'[p].pc = "responses"
                 /\ s.status = "expired" => Rejected(req'[p], "Forbidden")
                 /\ req'[p].pc = "responses"
                      => (s.status # "expired" /\ ~(now > s.expires_at))
            /\ ( /\ req[p].op = "finish" /\ req[p].pc = "responses"
                 /\ req[p].session.id = i /\ req'[p] # req[p] ) =>
                 IF req[p].session.status = "in_progress"
                 THEN req'[p].pc = "calculate"
                 ELSE Rejected(req'[p], "BadRequest")
            /\ ( /\ req'[p].op = "finish" /\ req'[p].token = i
                 /\ req[p].pc # "calculate" ) =>
                 /\ Scored(sessions'[i]) = Scored(s)
                 /\ \/ sessions'[i].status = s.status
                    \/ (s.status = "in_progress" /\ sessions'[i].status = "expired")
            /\ ( /\ req[p].op = "finish" /\ req[p].token = i
                 /\ req[p].pc \in {"updatedSession", "updatedExpire", "updatedResponses"}
                 /\ req'[p].pc = "done" ) =>
                 /\ req'[p].status = "ok"
                 /\ sessions'[i].status = "completed" ]_vars

QuestionsOfSession(session_id) ==
  LET linked == assessment_template_questions[sessions[session_id].template_id]
  IN  { linked[k] : k \in DOMAIN linked }

\* C7: every stored Response answers a question of the question set of its
\* session's template.
C7_QuestionOfTemplate ==
  \A x \in responses : x.question_id \in QuestionsOfSession(x.session_id)

\* C4: no student has two sessions in_progress on one template, however
\* the start requests of the student interleave.
C4_OneActiveSession ==
  \A i, j \in SessionIds :
    ( /\ sessions[i].student_id = sessions[j].student_id
      /\ sessions[i].template_id = sessions[j].template_id
      /\ sessions[i].status = "in_progress"
      /\ sessions[j].status = "in_progress" ) => i = j

\* the rows of the session table a start of the student on the template
\* is about, read off the table itself
Recorded(student, template) ==
  { i \in DOMAIN sessions :
      sessions[i].student_id = student /\ sessions[i].template_id = template }

Unavailable(template) ==
  ~templates[template].is_active \/ ~templates[template].is_public

HasActive(student, template) ==
  \E i \in Recorded(student, template) : sessions[i].status = "in_progress"

CapReached(student, template) ==
  /\ templates[template].max_attempts # 0
  /\ Cardinality(Recorded(student, template)) >= templates[template].max_attempts

Denied(student, template) ==
  \/ Unavailable(template)
  \/ HasActive(student, template)
  \/ CapReached(student, template)

\* a start request on an existing template is turned down in this step
StartRejected(p) ==
  /\ req'[p].op = "start"
  /\ req[p].pc # "done"
  /\ req'[p].pc = "done"
  /\ req'[p].status # "ok"
  /\ req'[p].template \in DOMAIN templates

StartPastChecks == {"startTemplate", "attempts", "insertSession"}

\* C8: with requests served one after the other, a start is turned down
\* only when the template is inactive or not public, or the student has an
\* in_progress session on it, or the template has a max_attempts and the
\* student has that many sessions on it; a start to which one of these
\* applies never gets past the checks and never adds a row; a start to
\* which none applies is not turned down, and its reply carries the session
\* row it created.
C8_CanStart ==
  [][ \A p \in Slots :
        /\ StartRejected(p) => Denied(req'[p].student, req'[p].template)
        /\ (req'[p].op = "start" /\ req'[p].pc \in StartPastChecks)
             => ~Denied(req'[p].student, req'[p].template)
        /\ (req[p].op = "start" /\ sessions' # sessions) =>
             /\ ~Denied(req[p].student, req[p].template)
             /\ sessions' = Append(sessions, sessions'[Len(sessions')])
             /\ sessions'[Len(sessions')].student_id = req[p].student
             /\ sessions'[Len(sessions')].template_id = req[p].template
             /\ sessions'[Len(sessions')].status = "in_progress"
        /\ (req'[p].op = "start" /\ req'[p].pc = "done" /\ req'[p].status = "ok"
            /\ req[p].pc # "done") =>
             /\ req'[p].token \in DOMAIN sessions
             /\ sessions[req'[p].token] = req'[p].session ]_vars

C8_Witness ==
  \E p \in Slots :
    /\ req[p].op = "start"
    /\ Rejected(req[p], "BadRequest")
    /\ req[p].message = "You already have an active session for this assessment"
    /\ HasActive(req[p].student, req[p].template)
    /\ ~Unavailable(req[p].template)
    /\ ~CapReached(req[p].student, req[p].template)

AttemptNumbers(student, template) ==
  { sessions[i].attempt_number : i \in Recorded(student, template) }

\* C10: with requests served one after the other, the row a start adds
\* has attempt_number 1 when the student has no session on the template,
\* and otherwise one more than the highest attempt_number among them.
C10_AttemptNumber ==
  [][ \A p \in Slots :
        (req[p].op = "start" /\ Len(sessions') = Len(sessions) + 1) =>
          LET prior == AttemptNumbers(req[p].student, req[p].template)
              added == sessions'[Len(sessions')]
          IN  /\ added.student_id = req[p].student
              /\ added.template_id = req[p].template
              /\ prior = {} => added.attempt_number = 1
              /\ prior # {} =>
                   \E a \in prior : /\ \A b \in prior : b <= a
                                    /\ added.attempt_number = a + 1 ]_vars

C10_Witness ==
  \E i \in SessionIds :
    /\ sessions[i].attempt_number = 3
    /\ AttemptNumbers(sessions[i].student_id, sessions[i].template_id) = {1, 2, 3}

\* C11: attempt numbers start at 1, and of two sessions of one student on
\* one template the one created later has the larger attempt_number (so
\* no two carry the same one), however the start requests interleave.
C11_AttemptNumbersIncrease ==
  \A i, j \in SessionIds :
    /\ sessions[i].attempt_number >= 1
    /\ ( /\ sessions[i].student_id = sessions[j].student_id
         /\ sessions[i].template_id = sessions[j].template_id
         /\ i < j ) => sessions[i].attempt_number < sessions[j].attempt_number

\* the columns that give the answer key away
AnswerKeyFields ==
  {"is_correct", "explanation", "correct_answer", "alternate_answers", "keywords"}

\* C12: no question object and no option object in a reply of start or of
\* getQuestionForSession carries an is_correct flag, an explanation or the
\* canonical, alternate or keyword answers.
C12_NoAnswerKey ==
  \A p \in Slots :
    (req[p].op \in {"start", "question"} /\ req[p].pc = "done"
     /\ req[p].status = "ok") =>
      \A i \in DOMAIN req[p].body :
        /\ DOMAIN req[p].body[i] \cap AnswerKeyFields = {}
        /\ \A k \in DOMAIN req[p].body[i].options :
             DOMAIN req[p].body[i].options[k] \cap AnswerKeyFields = {}

\* C13: a request on a session (get, question, submit, pause, resume,
\* finish, results, detailed results) that names the session and comes from
\* a student who does not own it is answered NotFound, its reply carries
\* nothing of the session, and it changes neither the session table nor
\* the responses.
C13_OwnerOnly ==
  [][ \A p \in Slots : \A i \in SessionIds :
        ( /\ req[p].pc = "idle"
          /\ req'[p].op \in SessionOps \cup ResultOps
          /\ req'[p].token = i
          /\ req'[p].student # sessions[i].student_id
          /\ req'[p].message \notin ShapeMessages ) =>
          /\ Rejected(req'[p], "NotFound")
          /\ req'[p].session = NoSession
          /\ req'[p].body = << >>
          /\ UNCHANGED <<sessions, responses, expirePatches>> ]_vars

C13_Witness ==
  \E p \in Slots :
    /\ req[p].op = "submit"
    /\ Rejected(req[p], "NotFound")
    /\ req[p].message = "Assessment session not found"
    /\ req[p].token \in SessionIds
    /\ sessions[req[p].token].student_id # req[p].student
    /\ sessions[req[p].token].status = "in_progress"

\* a results request on an existing session of the asking student arrives
ReadsResults(p, i) ==
  /\ req[p].pc = "idle"
  /\ req'[p].op \in ResultOps
  /\ req'[p].token = i
  /\ req'[p].student = sessions[i].student_id

\* C19: a results request, summary or detailed, is answered with results
\* only for a completed session whose template shows results immediately;
\* for a session that is in_progress or expired it is rejected with
\* BadRequest, for a completed session whose template hides the results
\* with Forbidden, and for a session of another student or an unknown id
\* with NotFound.
C19_ResultsGate ==
  [][ \A p \in Slots :
        /\ \A i \in SessionIds :
             ReadsResults(p, i) =>
               LET hidden ==
                     ~templates[sessions[i].template_id].show_results_immediately
               IN  /\ sessions[i].status \in {"in_progress", "expired"}
                        => Rejected(req'[p], "BadRequest")
                   /\ (sessions[i].status = "completed" /\ hidden)
                        => Rejected(req'[p], "Forbidden")
                   /\ (sessions[i].status = "completed" /\ ~hidden)
                        => /\ req'[p].status \in {"none", "ok"}
                           /\ req'[p].body = <<ResultsSummary(sessions[i])>>
        /\ ( /\ req[p].pc = "idle" /\ req'[p].op \in ResultOps
             /\ \/ req'[p].token \notin SessionIds
                \/ req'[p].student # sessions[req'[p].token].student_id )
             => Rejected(req'[p], "NotFound")
        /\ (req[p].op = "detailed" /\ req'[p] # req[p] /\ req'[p].pc # "idle")
             => /\ Rejected(req'[p], "ok")
                /\ req[p].token \in SessionIds
                /\ sessions[req[p].token].status = "completed"
                /\ req'[p].body[1] = ResultsSummary(sessions[req[p].token]) ]_vars

C19_Witness ==
  \E p \in Slots :
    /\ req[p].op = "detailed"
    /\ Rejected(req[p], "Forbidden")
    /\ req[p].token \in SessionIds
    /\ sessions[req[p].token].status = "completed"
    /\ sessions[req[p].token].student_id = req[p].student
    /\ ~templates[sessions[req[p].token].template_id].show_results_immediately

\* a submission whose shape is invalid
Malformed(r) ==
  \/ r.token = BlankToken
  \/ r.question = Null
  \/ (r.option = Null /\ r.text = NoText)
  \/ (r.option # Null /\ r.text # NoText)
  \/ r.time_spent < 0

\* C20: a submission with a blank session_token or question_id, with both
\* or neither of selected_option_id and text_answer, or with a negative
\* time_spent_seconds is answered BadRequest in the step it arrives, and
\* that step leaves the sessions, their expiry and the responses as they
\* were.
C20_ShapeFirst ==
  [][ \A p \in Slots :
        ( /\ req[p].pc = "idle"
          /\ req'[p].op = "submit"
          /\ Malformed(req'[p]) ) =>
          /\ Rejected(req'[p], "BadRequest")
          /\ req'[p].message \in ShapeMessages
          /\ UNCHANGED <<sessions, responses, expirePatches>> ]_vars

C20_Witness ==
  \E p \in Slots :
    /\ req[p].op = "submit"
    /\ Rejected(req[p], "BadRequest")
    /\ req[p].option # Null /\ req[p].text # NoText
    /\ req[p].token \in SessionIds
    /\ sessions[req[p].token].student_id = req[p].student
    /\ sessions[req[p].token].status = "in_progress"
    /\ now > sessions[req[p].token].expires_at

\* the sum of points_earned over a set of response rows
RECURSIVE PointsTotal(_)
PointsTotal(rows) ==
  IF rows = {} THEN 0
  ELSE LET x == CHOOSE y \in rows : TRUE
       IN  PointsTotal(rows \ {x}) + x.points_earned

\* n is 100 * correct / total rounded to the nearest integer, halves up
IsRoundedPercent(n, correct, total) ==
  /\ 2 * total * n <= 200 * correct + total
  /\ 200 * correct + total < 2 * total * (n + 1)

PointValue(question) ==
  IF question.points_value = NoPoints THEN 1 ELSE question.points_value

\* the submitted id is the id of an option of the question that is flagged
\* correct
ResolvesCorrect(option, question) ==
  \E o \in assessment_question_options :
    o.id = option /\ o.question_id = question /\ o.is_correct

\* C14: the scoring of an answer to a choice question never fails; it is
\* correct iff the submitted id is the id of an option of that question
\* flagged correct, and earns the question's point value when correct and
\* 0 otherwise.
C14_ChoiceScoring ==
  [][ \A p \in Slots :
        ( /\ req[p].op = "submit" /\ req[p].pc = "score"
          /\ req'[p] # req[p]
          /\ assessment_questions[req[p].question].question_type \in ChoiceTypes ) =>
          LET question == assessment_questions[req[p].question]
              correct == ResolvesCorrect(req[p].option, question.id)
          IN  /\ req'[p].pc = "save"
              /\ req'[p].isCorrect = correct
              /\ req'[p].points = IF correct THEN PointValue(question) ELSE 0 ]_vars

\* the answer spec of a text question
AnswerSpecOf(question) ==
  CHOOSE t \in assessment_text_answers : t.question_id = question

HasAnswerSpec(question) ==
  /\ question \in QuestionIds
  /\ assessment_questions[question].question_type \in TextTypes
  /\ \E t \in assessment_text_answers : t.question_id = question

\* the text evaluations of a step, by submitResponse and by the standalone
\* finish: the answer spec, the submission, the verdict and the points
TextEvaluations ==
  { [spec |-> AnswerSpecOf(req[p].question), submission |-> req[p].text,
     correct |-> req'[p].isCorrect, points |-> req'[p].points] :
      p \in { q \in Slots : /\ req[q].op = "submit" /\ req[q].pc = "score"
                            /\ req'[q].pc = "save"
                            /\ HasAnswerSpec(req[q].question) } }
  \cup
  UNION { { [spec |-> AnswerSpecOf(req'[p].answers[i].question_id),
             submission |-> req'[p].answers[i].answer,
             correct |-> req'[p].toSave[i].correct, points |-> 0] :
              i \in { j \in DOMAIN req'[p].answers :
                        HasAnswerSpec(req'[p].answers[j].question_id) } } :
      p \in { q \in Slots : /\ req[q].pc = "idle"
                            /\ req'[q].op = "runnerFinish" } }

\* equality per the case_sensitive flag
EqualPerCase(spec, a, b) ==
  IF spec.case_sensitive THEN a = b ELSE toLowerCase(a) = toLowerCase(b)

ContainsPerCase(spec, a, b) ==
  IF spec.case_sensitive THEN includes(a, b)
  ELSE includes(toLowerCase(a), toLowerCase(b))

SubstringOrKeywords(spec, submitted) ==
  LET hits == { i \in DOMAIN spec.keywords :
                  ContainsPerCase(spec, submitted, spec.keywords[i]) }
  IN  \/ ContainsPerCase(spec, submitted, trim(spec.correct_answer))
      \/ \E i \in DOMAIN spec.alternate_answers :
           ContainsPerCase(spec, submitted, spec.alternate_answers[i])
      \/ /\ Len(spec.keywords) > 0
         /\ 2 * Cardinality(hits) >= Len(spec.keywords)

\* C16: without exact_match, a submission that is not empty after trimming
\* is correct iff it contains the canonical answer, or an alternate answer,
\* or at least half (rounded up) of a non-empty keyword list, all compared
\* per the case_sensitive flag.
C16_SubstringOrKeywords ==
  [][ \A e \in TextEvaluations :
        (~e.spec.exact_match /\ trim(e.submission) # << >>) =>
          e.correct = SubstringOrKeywords(e.spec, trim(e.submission)) ]_vars

\* C17: a submission that is empty after trimming is never evaluated as
\* correct and earns no points, whatever the answer spec.
C17_EmptyNeverCorrect ==
  [][ \A e \in TextEvaluations :
        trim(e.submission) = << >> => (~e.correct /\ e.points = 0) ]_vars

\* slot p takes a step of a pause or resume request
PauseResumeStep(p) ==
  /\ req'[p].op \in {"pause", "resume"}
  /\ req'[p] # req[p]

\* the fields of a session row that are not metadata
Unannotated(session) ==
  [session EXCEPT !.pause_count = 0]

\* C21: a step of a pause or resume request leaves the status,
\* expires_at, score fields and responses of every session unchanged;
\* pause_count grows by 1 with the PATCH of a pause and is unchanged by a
\* resume.
C21_PauseResumeMetadataOnly ==
  [][ \A p \in Slots : PauseResumeStep(p) =>
        /\ responses' = responses
        /\ Len(sessions') = Len(sessions)
        /\ \A i \in SessionIds :
             /\ Unannotated(sessions'[i]) = Unannotated(sessions[i])
             /\ sessions'[i].pause_count # sessions[i].pause_count =>
                  /\ req'[p].op = "pause"
                  /\ sessions'[i].pause_count = sessions[i].pause_count + 1 ]_vars

\* a token jwtVerify accepts now
Verifiable(token) ==
  /\ token.wellFormed /\ token.signed
  /\ (token.exp = 0 \/ now < token.exp)

GuardedRoutes == {"me", "profile", "assessments/latest"}

\* a request arrives at the server
Arrives == gate.pc \in {"idle", "done"} /\ gate' # gate

StoredOptionViews(question) ==
  { [id |-> o.id, option_text |-> o.option_text] :
      o \in { x \in assessment_question_options : x.question_id = question } }

\* a list presents the options of a question: every stored option once
PresentsOptionsOf(options, question) ==
  /\ Len(options) = Cardinality(StoredOptionViews(question))
  /\ { options[k] : k \in DOMAIN options } = StoredOptionViews(question)

\* two arrays hold the same entries, each as often
SameEntries(a, b) ==
  /\ Len(a) = Len(b)
  /\ \A x \in { a[k] : k \in DOMAIN a } \cup { b[k] : k \in DOMAIN b } :
       Cardinality({ k \in DOMAIN a : a[k] = x })
         = Cardinality({ k \in DOMAIN b : b[k] = x })

\* C23: the option list of every question in a reply of start or of
\* getQuestionForSession holds exactly the stored options of the question,
\* each once, with or without randomization; shuffleArray returns a
\* permutation of its argument and leaves the argument as it was; no step
\* of start or of getQuestionForSession writes the option table.
C23_ShuffleOnlyPermutes ==
  [][ \A p \in Slots :
        (req'[p].op \in {"start", "question"} /\ req'[p] # req[p]) =>
         /\ assessment_question_options' = assessment_question_options
         /\ (req'[p].pc = "done" /\ req'[p].status = "ok") =>
              \A i \in DOMAIN req'[p].body :
                /\ PresentsOptionsOf(req'[p].body[i].options,
                                     req'[p].body[i].id)
                /\ \A run \in shuffleRuns(OptionsOf(req'[p].body[i].id)) :
                     /\ run.array = OptionsOf(req'[p].body[i].id)
                     /\ SameEntries(run.shuffled, run.array) ]_vars

\* getQuestionForSession has presented the three options of q1 in another
\* order than the stored one
C23_Witness ==
  /\ req[1].op = "question" /\ req[1].pc = "done" /\ req[1].status = "ok"
  /\ Len(req[1].body) = 1
  /\ req[1].body[1].id = "q1"
  /\ Len(req[1].body[1].options) = 3
  /\ req[1].body[1].options[1].id = "o5"
  /\ req[1].body[1].options[3].id = "o2"

\* the kind of a raw question type, if it has one
KindOf(rawType) ==
  CASE rawType \in {"mcq", "image_mcq"} -> "mcq"
    [] rawType \in {"text", "image_text", "short_text", "fill_blank"} -> "text"
    [] OTHER -> "dropped"

ReturnedIds(questions) == { questions[i].id : i \in DOMAIN questions }

AnswerIds(answers) == { answers[i].question_id : i \in DOMAIN answers }

\* C24: fetchQuestions with a non-empty id list returns the questions of
\* the list that exist and have a known type, active or not; without ids it
\* returns no question whose is_active is false; either way no question of
\* an unknown type is returned, mcq and image_mcq come back as kind mcq,
\* the four text tags as kind text, and the points are the stored number,
\* or 1 when the stored value is unset or no number.
C24_FetchQuestions ==
  \A p \in Slots :
    LET r == req[p]
        ids == AnswerIds(r.answers)
    IN  /\ (r.op = "runnerFinish" /\ ids # {}) =>
             ReturnedIds(r.questions) =
               { q \in ids \cap QuestionIds :
                   KindOf(assessment_questions[q].question_type) # "dropped" }
        /\ (r.op = "runnerStart" /\ r.pc = "done") =>
             ReturnedIds(r.questions) =
               { q \in QuestionIds :
                   /\ assessment_questions[q].is_active # "false"
                   /\ KindOf(assessment_questions[q].question_type) # "dropped" }
        /\ r.op \in {"runnerStart", "runnerFinish"} =>
             \A i \in DOMAIN r.questions :
               LET question == r.questions[i]
                   row == assessment_questions[question.id]
               IN  /\ question.rawType = row.question_type
                   /\ question.type = KindOf(row.question_type)
                   /\ question.type \in {"mcq", "text"}
                   /\ question.points =
                        IF row.points_value >= 0 THEN row.points_value ELSE 1
                   /\ \A j \in DOMAIN r.questions :
                        r.questions[j].id = question.id => j = i

\* a finish has fetched the inactive q5 and the short_text q7 by id, and
\* dropped the essay q6
C24_Witness ==
  /\ req[1].op = "runnerFinish"
  /\ AnswerIds(req[1].answers) = {"q5", "q6", "q7"}
  /\ ReturnedIds(req[1].questions) = {"q5", "q7"}
  /\ \E i \in DOMAIN req[1].questions :
       /\ req[1].questions[i].id = "q7"
       /\ req[1].questions[i].type = "text"
       /\ req[1].questions[i].points = 1

\* the answer of a response is right: its question resolves and, for a
\* choice question, the index names an option that is the correct one
AnswersRight(op, response) ==
  IF op = "legacyFinish"
  THEN \E n \in DOMAIN QUESTIONS :
         /\ QUESTIONS[n].id = response.question_id
         /\ response.answer = DigitString(QUESTIONS[n].answerIndex)
  ELSE /\ response.question_id \in QuestionIds
       /\ LET row == assessment_questions[response.question_id]
              options == OptionsOf(row.id)
              idx == OptionIndex(response.answer)
          IN  CASE KindOf(row.question_type) = "mcq" ->
                     /\ idx # NaN /\ idx + 1 \in DOMAIN options
                     /\ options[idx + 1].is_correct
                [] KindOf(row.question_type) = "text" ->
                     /\ HasAnswerSpec(row.id)
                     /\ evaluateTextAnswer(response.answer,
                                           AnswerSpecOf(row.id))
                [] OTHER -> FALSE

\* Math.round of 100 * correct / total
RoundedPercent(correct, total) ==
  CHOOSE s \in 0..100 :
    /\ 2 * total * s <= 200 * correct + total
    /\ 200 * correct + total < 2 * total * (s + 1)

\* C25: finish of the standalone flow reports correct = the number of
\* responses whose question resolves and whose answer is right, score =
\* round(100 * correct / number of responses), 0 for no response, and
\* passed = (score >= 72).
C25_FixedCutoff ==
  [][ \A p \in Slots :
        (req[p].pc = "idle" /\ req'[p].op \in FinishOps) =>
          LET r == req'[p]
              total == Len(r.answers)
              correct == Cardinality({ i \in DOMAIN r.answers :
                                        AnswersRight(r.op, r.answers[i]) })
              score == IF total = 0 THEN 0 ELSE RoundedPercent(correct, total)
          IN  /\ r.body[1].correct = correct
              /\ r.body[1].score = score
              /\ r.body[1].passed = (score >= 72) ]_vars


\* ------------------------------------------------------------------ C26
\* the createTemplate calls that have come to their end
CreatedTemplates == { p \in Slots : req[p].op = "createTemplate"
                                    /\ req[p].pc = "done" }

\* the store holds the row of the template and a link for every question
HoldsAll(id, question_ids) ==
  /\ id \in DOMAIN templates
  /\ id \in DOMAIN assessment_template_questions
  /\ assessment_template_questions[id] = question_ids
  /\ templates[id].total_questions = Len(assessment_template_questions[id])

HoldsNothing(id) ==
  /\ id \notin DOMAIN templates
  /\ id \notin DOMAIN assessment_template_questions

\* C26: createTemplate is all-or-nothing with respect to the store. A call
\* that ends with the error of the refused links (the cleanup delete having
\* succeeded) leaves no template row and no link of that call; a call whose
\* row was never inserted leaves nothing; a call that ends well leaves the
\* row with total_questions equal to the number of its links; and whenever
\* the cleanup delete did not fail, the store holds all of the call or
\* nothing of it.
C26_CreateTemplateAllOrNothing ==
  \A p \in CreatedTemplates :
    LET r == req[p]
    IN  /\ r.message = "Failed to assign questions to template"
             => HoldsNothing(r.template)
        /\ r.message = "Failed to create template"
             => /\ r.template = IdleReq.template
                /\ NewTemplateIds \cap DOMAIN assessment_template_questions
                     \subseteq DOMAIN templates
        /\ r.status = "ok"
             => /\ HoldsAll(r.template, r.body[1].questions)
                /\ r.body[1].template.total_questions
                     = Len(r.body[1].questions)
        /\ r.message # "Failed to delete template" /\ r.template # IdleReq.template
             => \/ HoldsNothing(r.template)
                \/ r.template \in DOMAIN templates
                   /\ HoldsAll(r.template,
                               assessment_template_questions[r.template])

\* a createTemplate whose links were refused and whose cleanup went through,
\* after an earlier createTemplate that left a template with two links
C26_Witness ==
  \E p \in CreatedTemplates :
    /\ req[p].message = "Failed to assign questions to template"
    /\ req[p].template = "t6"
    /\ HoldsNothing("t6")
    /\ HoldsAll("t5", <<"q1", "q2">>)


\* ------------------------------------------------------------------ C27
\* C27: under any interleaving of submitResponse and finish on one session,
\* no Response row is persisted for a session whose status is completed:
\* the Response rows of a completed session never change.
C27_CompletedResponsesFrozen ==
  [][\A id \in SessionIds \cap SessionIds' :
       sessions[id].status = "completed"
         => ResponsesOf(id)' = ResponsesOf(id)]_vars


\* ------------------------------------------------------------------ C28
\* the start that followed the finish at once has been answered
RetakeAnswered ==
  /\ Finished
  /\ req[2].op = "start" /\ req[2].pc = "done"

\* C28: the can_retake flag of finish agrees with the eligibility check of
\* start: the start of the same student on the same template that follows
\* the finish at once is allowed when can_retake is true and denied when
\* it is false.
C28_CanRetakeAgreesWithStart ==
  RetakeAnswered => (req[1].can_retake <=> req[2].status = "ok")

\* the half of C28 for can_retake = true
C28_RetakeAllowed ==
  RetakeAnswered /\ req[1].can_retake => req[2].status = "ok"


\* ------------------------------------------------------------------ C29
\* C29: the two text evaluators agree: for every answer spec and every
\* submitted text, the verdict of validateAndScoreResponse on a text
\* question is the verdict of evaluateTextAnswer, so every verdict either
\* service gives is the verdict of both.
C29_EvaluatorsAgree ==
  [][ \A e \in TextEvaluations :
        /\ e.correct = evaluateTextAnswer(e.submission, e.spec)
        /\ e.correct =
             validateAndScoreResponse(assessment_questions[e.spec.question_id],
                                      Null, e.submission).isCorrect ]_vars


\* ------------------------------------------------------------------ C30
\* the deadline of session i has passed and the store still has it
\* in_progress
Lingers(i) ==
  sessions[i].status = "in_progress" /\ now > sessions[i].expires_at

\* this step is the expiry PATCH of a read of session i
ExpiringRead(i) ==
  \E p \in Slots : /\ req[p].pc \in ExpirePcs
                    /\ req[p].session.id = i
                    /\ req'[p].message = "Assessment session has expired"
                    /\ expirePatches'[i] = expirePatches[i] + 1

\* this step is the scoring of a finish that read session i in time
ScoringInFlight(i) ==
  \E p \in Slots : /\ req[p].op = "finish" /\ req[p].pc = "calculate"
                    /\ req[p].session.id = i
                    /\ req'[p].pc = "updatedSession"

\* what a lingering session does to the starts of its student on its
\* template, requests served one after the other
LingeringBlocksStart(i) ==
  \A p \in Slots :
    LET mine == /\ req[p].op = "start"
                /\ req[p].student = sessions[i].student_id
                /\ req[p].template = sessions[i].template_id
    IN  /\ (mine /\ req[p].pc = "activeSessions" /\ req'[p] # req[p])
             => /\ req'[p].pc = "done"
                /\ req'[p].status = "BadRequest"
                /\ req'[p].message =
                     "You already have an active session for this assessment"
        /\ mine => Len(sessions') = Len(sessions)

\* every session of the student on the template counts toward max_attempts
AllSessionsCount ==
  \A p \in Slots :
    (req[p].op = "start" /\ req[p].pc = "attemptCount" /\ req'[p] # req[p])
      => ( req'[p].pc = "done"
             <=> Cardinality(Recorded(req[p].student, req[p].template))
                   >= templates[req[p].template].max_attempts )

\* C30 (as stated): a session whose expires_at has passed keeps status
\* in_progress until a read turns it to expired; while it lingers, every
\* start of the same student on the same template is denied with 'active
\* session' and no session is added; all sessions count toward
\* max_attempts.
C30_LingersUntilRead ==
  [][ /\ AllSessionsCount
      /\ \A i \in SessionIds : Lingers(i) =>
            /\ LingeringBlocksStart(i)
            /\ sessions'[i].status # "in_progress"
                 => sessions'[i].status = "expired" /\ ExpiringRead(i) ]_vars

\* the rest of C30: a lingering session leaves in_progress only by the
\* expiry of a read or by the scoring of a finish that read it before the
\* deadline; while it lingers, every start of the same student on the same
\* template is denied with 'active session' and no session is added; all
\* sessions count toward max_attempts.
C30_LingersUntilReadOrScored ==
  [][ /\ AllSessionsCount
      /\ \A i \in SessionIds : Lingers(i) =>
            /\ LingeringBlocksStart(i)
            /\ sessions'[i].status # "in_progress"
                 => \/ sessions'[i].status = "expired" /\ ExpiringRead(i)
                    \/ sessions'[i].status = "completed"
                         /\ ScoringInFlight(i) ]_vars

====
